---------------------------- MODULE Spec2Model ----------------------------
(***************************************************************************)
(* Model of the puzzle game "unblocked": the replay engine (replay.rs),    *)
(* the game field (field.rs) and the play and demo scenes that drive them  *)
(* (play.rs, demo.rs).                                                     *)
(***************************************************************************)
EXTENDS Integers, Sequences, FiniteSets, TLC

(***************************************************************************)
(* Part 1.  The replay engine, src/src/replay.rs                           *)
(***************************************************************************)

\* replay.rs:12
REPLAY_VERSION == 1
\* replay.rs:14, "the first replay action must be no later than MAX_DELAY ticks"
MAX_DELAY == 60 * 3
\* consts.rs:15
DEMO_LEVEL == 0

\* replay.rs:17-21, enum Action
Actions == {"Up", "Down", "Throw"}
\* the keys the scenes pass to add_action (play.rs:105,109,112)
Keys == {"KeyUp", "KeyDown", "KeySpace"}

\* replay.rs:30-37
key_to_action(k) ==
    CASE k = "KeyUp" -> "Up"
      [] k = "KeyDown" -> "Down"
      [] k = "KeySpace" -> "Throw"

\* replay.rs:62-66, Replay::default
ReplayDefault == [version |-> REPLAY_VERSION, moves |-> <<>>]

\* replay.rs:76-78, ReplayEngine::new
ReplayEngineNew == [replay |-> ReplayDefault, state |-> "Idle", shift |-> 0, idx |-> 0]

\* rec_start that keeps the moves of the log
rec_start_keeps_log(e) == [e EXCEPT !.state = "Recording", !.replay.version = REPLAY_VERSION]

\* rec_start that leaves the state of the engine alone
rec_start_stays_idle(e) ==
    [e EXCEPT !.replay = [version |-> REPLAY_VERSION, moves |-> <<>>]]

\* replay.rs:84-89
rec_start(e) ==
    [e EXCEPT !.state = "Recording",
              !.replay = [version |-> REPLAY_VERSION, moves |-> <<>>]]

\* replay.rs:192-196; the assertion of line 193 is the caller's obligation
add_action(e, ticks, key) ==
    [e EXCEPT !.replay.moves = Append(@, [tick |-> ticks, act |-> key_to_action(key)])]

(* The stored form of a replay (replay.rs:140, bincode::serialize of      *)
(* struct Replay): the version, the number of moves, then for every move  *)
(* its tick and the index of its Action variant.                          *)
ActIndex(a) == CASE a = "Up" -> 0 [] a = "Down" -> 1 [] a = "Throw" -> 2
IndexAct(n) == CASE n = 0 -> "Up" [] n = 1 -> "Down" [] n = 2 -> "Throw"

RECURSIVE EncodeMoves(_)
EncodeMoves(ms) ==
    IF ms = <<>> THEN <<>>
    ELSE <<ms[1].tick, ActIndex(ms[1].act)>> \o EncodeMoves(Tail(ms))

Serialize(r) == <<r.version, Len(r.moves)>> \o EncodeMoves(r.moves)

\* replay.rs:108, bincode::deserialize
Deserialize(bytes) ==
    [version |-> bytes[1],
     moves |-> [i \in 1..bytes[2] |->
                  [tick |-> bytes[2 * i + 1], act |-> IndexAct(bytes[2 * i + 2])]]]

\* a level without a stored replay file
NoFile == <<>>

\* replay.rs:94, the replay of the demo level that is built into the binary
DemoAsset ==
    Serialize([version |-> REPLAY_VERSION,
               moves |-> <<[tick |-> MAX_DELAY + 20, act |-> "Up"],
                           [tick |-> MAX_DELAY + 25, act |-> "Throw"]>>])

\* replay.rs:93-106: the bytes load reads for a level, NoFile when there are none
ReplayBytes(fs, lvl) == IF lvl = DEMO_LEVEL THEN DemoAsset ELSE fs[lvl]

\* replay.rs:113-114
LoadShift(ms) == IF ms[1].tick > MAX_DELAY THEN ms[1].tick - MAX_DELAY ELSE 0

\* load with the cursor reset before the version is checked
load_resets_early(e, fs, lvl) ==
    IF ReplayBytes(fs, lvl) = NoFile THEN e
    ELSE LET replay == Deserialize(ReplayBytes(fs, lvl)) IN
         IF replay.version = REPLAY_VERSION
         THEN [e EXCEPT !.replay = replay,
                        !.idx = 0,
                        !.shift = IF replay.moves # <<>> THEN LoadShift(replay.moves) ELSE @]
         ELSE [e EXCEPT !.idx = 0]

\* replay.rs:91-119
load(e, fs, lvl) ==
    IF ReplayBytes(fs, lvl) = NoFile THEN e
    ELSE LET replay == Deserialize(ReplayBytes(fs, lvl)) IN
         IF replay.version = REPLAY_VERSION
         THEN [e EXCEPT !.replay = replay,
                        !.idx = 0,
                        !.shift = IF replay.moves # <<>> THEN LoadShift(replay.moves) ELSE @]
         ELSE e

\* the loop of save with "shift = delay - MAX_DELAY" for "shift += delay - MAX_DELAY"
RECURSIVE Normalize_shift_not_summed(_, _, _, _)
Normalize_shift_not_summed(ms, i, shift, last_delay) ==
    IF i > Len(ms) THEN ms
    ELSE LET delay == ms[i].tick - shift - last_delay
             nshift == IF delay > MAX_DELAY THEN delay - MAX_DELAY ELSE shift
             ntick == IF nshift # 0 THEN ms[i].tick - nshift ELSE ms[i].tick
         IN Normalize_shift_not_summed([ms EXCEPT ![i].tick = ntick], i + 1, nshift, ntick)

\* the loop of save that makes every gap MAX_DELAY, the short ones too
RECURSIVE Normalize_stretches(_, _, _, _)
Normalize_stretches(ms, i, shift, last_delay) ==
    IF i > Len(ms) THEN ms
    ELSE LET delay == ms[i].tick - shift - last_delay
             nshift == shift + (delay - MAX_DELAY)
             ntick == IF nshift # 0 THEN ms[i].tick - nshift ELSE ms[i].tick
         IN Normalize_stretches([ms EXCEPT ![i].tick = ntick], i + 1, nshift, ntick)

\* replay.rs:127-138: the loop of save over moves i..Len, with the running shift
\* and last_delay
RECURSIVE Normalize(_, _, _, _)
Normalize(ms, i, shift, last_delay) ==
    IF i > Len(ms) THEN ms
    ELSE LET delay == ms[i].tick - shift - last_delay
             nshift == IF delay > MAX_DELAY THEN shift + (delay - MAX_DELAY) ELSE shift
             ntick == IF nshift # 0 THEN ms[i].tick - nshift ELSE ms[i].tick
         IN Normalize([ms EXCEPT ![i].tick = ntick], i + 1, nshift, ntick)

\* replay.rs:121-146: the engine after save (its log is normalized in place)
save_engine(e) ==
    IF e.replay.moves = <<>> THEN e
    ELSE [e EXCEPT !.replay.moves = Normalize(e.replay.moves, 1, 0, 0)]

\* save that leaves a stored record alone
save_files_keeps_old(e, fs, lvl) ==
    IF e.replay.moves = <<>> \/ fs[lvl] # <<>> THEN fs
    ELSE [fs EXCEPT ![lvl] = Serialize([e.replay EXCEPT !.moves = Normalize(@, 1, 0, 0)])]

\* replay.rs:121-146: the files after save
save_files(e, fs, lvl) ==
    IF e.replay.moves = <<>> THEN fs
    ELSE [fs EXCEPT ![lvl] = Serialize(save_engine(e).replay)]

\* replay.rs:148-150
is_loaded(e) == e.replay.moves # <<>>

\* replay_start without the test of the log
replay_start_on_empty_log(e) == [e EXCEPT !.state = "Replaying", !.idx = 0]

\* replay.rs:152-159; the assertion of line 153 is the caller's obligation
replay_start(e) ==
    IF e.replay.moves = <<>> THEN e
    ELSE [e EXCEPT !.state = "Replaying", !.idx = 0]

\* replay.rs:161-163
is_playing(e) == e.state = "Replaying" /\ e.idx < Len(e.replay.moves)

\* next_replay_action that steps over the next move when it is due as well
next_replay_action_skips(e, tick) ==
    IF ~is_playing(e) \/ e.idx >= Len(e.replay.moves)
    THEN [ret |-> "None", eng |-> e]
    ELSE LET next_ticks == e.replay.moves[e.idx + 1].tick - e.shift
             twin == /\ e.idx + 1 < Len(e.replay.moves)
                     /\ e.replay.moves[e.idx + 2].tick - e.shift <= tick
         IN IF tick < next_ticks
            THEN [ret |-> "None", eng |-> e]
            ELSE [ret |-> e.replay.moves[e.idx + 1].act,
                  eng |-> [e EXCEPT !.idx = IF twin THEN @ + 2 ELSE @ + 1]]

\* next_replay_action that forgets the shift
next_replay_action_no_shift(e, tick) ==
    IF ~is_playing(e) \/ e.idx >= Len(e.replay.moves)
    THEN [ret |-> "None", eng |-> e]
    ELSE IF tick < e.replay.moves[e.idx + 1].tick
         THEN [ret |-> "None", eng |-> e]
         ELSE [ret |-> e.replay.moves[e.idx + 1].act, eng |-> [e EXCEPT !.idx = @ + 1]]

\* next_replay_action with "tick <= next_ticks" for "tick < next_ticks"
next_replay_action_late(e, tick) ==
    IF ~is_playing(e) \/ e.idx >= Len(e.replay.moves)
    THEN [ret |-> "None", eng |-> e]
    ELSE LET next_ticks == e.replay.moves[e.idx + 1].tick - e.shift IN
         IF tick <= next_ticks
         THEN [ret |-> "None", eng |-> e]
         ELSE [ret |-> e.replay.moves[e.idx + 1].act, eng |-> [e EXCEPT !.idx = @ + 1]]

\* replay.rs:174-190: the returned action ("None" for Option::None) and the engine
next_replay_action(e, tick) ==
    IF ~is_playing(e) \/ e.idx >= Len(e.replay.moves)
    THEN [ret |-> "None", eng |-> e]
    ELSE LET next_ticks == e.replay.moves[e.idx + 1].tick - e.shift IN
         IF tick < next_ticks
         THEN [ret |-> "None", eng |-> e]
         ELSE [ret |-> e.replay.moves[e.idx + 1].act, eng |-> [e EXCEPT !.idx = @ + 1]]

\* replay.rs:198-200
action_count(e) == Len(e.replay.moves)

(* demo.rs:91-106: "while let Some(act) = next_replay_action(tick)": the   *)
(* actions delivered at one tick, in order, and the engine afterwards.     *)
RECURSIVE Drain(_, _, _)
Drain(e, tick, acc) ==
    LET r == next_replay_action(e, tick) IN
    IF r.ret = "None" THEN [acts |-> acc, eng |-> e]
    ELSE Drain(r.eng, tick, Append(acc, r.ret))


(***************************************************************************)
(* Part 2.  The game field (field.rs), the levels (loader.rs) and the      *)
(* hiscores (scores.rs).                                                   *)
(*                                                                         *)
(* Screen positions, velocities and limits are f32 points in the source.   *)
(* An f32 has a significand of 24 bits: between 32 and 64 points the f32   *)
(* values are the multiples of 1/Scale of a point, between 64 and 128      *)
(* points every second of them, and so on.  Here a position or a limit is  *)
(* a whole number of 1/Scale of a point, and a velocity is vel / 2^vel_e   *)
(* of them; every sum, difference and quotient is rounded as the f32       *)
(* operation rounds it, to the nearest f32 with ties to the even one.      *)
(***************************************************************************)

\* consts.rs
BRICK_SIZE == 48
WIDTH == 21
INFO_WIDTH == 5
HEIGHT == 16
MAX_SIZE == 7
\* field.rs:18-20; play.rs:18
TICKS == 1
BRICK_DEF_SPEED == 48
BRICK_FALL_SPEED == 16
MIN_THROWS == 3

\* units of a point
Scale == 2^18
\* a length of p points
Pt(p) == p * Scale
Abs(v) == IF v < 0 THEN 0 - v ELSE v
\* the f32 nearest to 0.1 is TENTH / 2^27
TENTH == 13421773
\* |v| > 0.1 of the source, for v = m / 2^s units: m * 2^9 > TENTH * 2^s
AboveTenth(m, s) == s <= 9 /\ Abs(m) > TENTH \div 2^(9 - s)
\* |v| < 0.1 of the source, for a whole number v of units (the difference of
\* two positions: it is exact when it is below 64 points)
BelowTenth(v) == Abs(v) <= TENTH \div 2^9

\* the distance in units between the f32 values around t units, for t from 32
\* points up to 1024 points
Grid(t) ==
    IF t < 2^24 THEN 1
    ELSE IF t < 2^25 THEN 2
    ELSE IF t < 2^26 THEN 4
    ELSE IF t < 2^27 THEN 8
    ELSE 16

\* the f32 nearest to t + r / 2^s units, for t >= 32 points and 0 <= r < 2^s
Nearest(t, r, s) ==
    LET g == Grid(t)
        e == t % g
        lo == t - e
        up == IF g = 1 THEN 2 * r > 2^s ELSE 2 * e > g \/ (2 * e = g /\ r > 0)
        tie == IF g = 1 THEN 2 * r = 2^s ELSE 2 * e = g /\ r = 0
    IN IF e = 0 /\ r = 0 THEN t
       ELSE IF up \/ (tie /\ (lo \div g) % 2 = 1) THEN lo + g
       ELSE lo

\* the f32 sum or difference of two positions: v is the exact one
Round32(v) ==
    IF Abs(v) < 2^24 THEN v
    ELSE IF v < 0 THEN 0 - Nearest(0 - v, 0, 0)
    ELSE Nearest(v, 0, 0)

\* the f32 sum of the position a and the velocity m / 2^s
Add32(a, m, s) == Nearest(a + (m \div 2^s), m % 2^s, s)

\* the least s with a * 2^s >= n * 2^23, and a * 2^s with it
RECURSIVE Normal(_, _, _)
Normal(a, n, s) == IF a >= n * 2^23 THEN [a |-> a, s |-> s] ELSE Normal(2 * a, n, s + 1)

\* num / den rounded to the nearest multiple of g, ties to the even one
RoundRat(num, den, g) ==
    LET k == num \div (den * g)
        rem == num % (den * g)
    IN IF 2 * rem > den * g \/ (2 * rem = den * g /\ k % 2 = 1) THEN (k + 1) * g ELSE k * g

\* the f32 quotient d / n of d units by the whole number n, as m / 2^s units
Quot32(d, n) ==
    IF d = 0 THEN [m |-> 0, s |-> 0]
    ELSE LET nm == Normal(Abs(d), n, 0)
             q == RoundRat(nm.a, n, IF nm.s = 0 THEN Grid(nm.a \div n) ELSE 1)
         IN [m |-> IF d < 0 THEN 0 - q ELSE q, s |-> nm.s]
\* (v / BRICK_SIZE) as usize, and (v / BRICK_SIZE).round() as usize: the f32
\* quotient of an f32 position of 48 points or more is a whole number, or a
\* whole number and a half, only when the exact quotient is
ToBlocks(v) == v \div Pt(BRICK_SIZE)
RoundToBlocks(v) == (2 * v + Pt(BRICK_SIZE)) \div (2 * Pt(BRICK_SIZE))

\* F applied to the value of v: the statement that computes v has run before
\* the statements of F read it
Then(v, F(_)) == CHOOSE r \in {F(x) : x \in {v}} : TRUE

\* field.rs:55-64
BrickKinds == {"None", "K1", "K2", "K3", "K4", "K5", "K6", "Joker"}
\* field.rs:36-41
GameStates == {"Unfinished", "Winner", "Looser", "Completed"}

\* loader.rs:10-21
c2brick(c) ==
    CASE c \in {"S", "s", "$", "1"} -> "K1"
      [] c \in {"X", "x", "%", "2"} -> "K2"
      [] c \in {"O", "o", "@", "3"} -> "K3"
      [] c \in {"T", "t", "=", "4"} -> "K4"
      [] c \in {"Z", "z", "+", "5"} -> "K5"
      [] c \in {"W", "w", ":", "6"} -> "K6"
      [] c = "?" -> "Joker"
      [] OTHER -> "None"

\* loader.rs:7
DEFAULT_KIND == "Joker"

\* loader.rs:202: a puzzle line of the level file
PuzzleLine(chars) == [i \in 1..Len(chars) |-> c2brick(chars[i])]

\* loader.rs:172-181: the level file's "start:" line
StartLine(c) == c2brick(c)

\* The levels of the level file.  Level 0 is the demo level; level 1 has a
\* row of three bricks with one brick on top; level 2, the last one, is a
\* column of three bricks with one brick beside it.  Corners are the default one.
Levels ==
    [n \in 0..2 |->
        CASE n = 0 ->
               [corner |-> <<>>,
                puzzle |-> << PuzzleLine(<<"1", "2">>),
                              PuzzleLine(<<"2", "1">>) >>,
                first |-> DEFAULT_KIND]
          [] n = 1 ->
               [corner |-> <<>>,
                puzzle |-> << PuzzleLine(<<".", ".", ".", ".", ".", "2", ".">>),
                              PuzzleLine(<<".", ".", ".", ".", "2", "2", "1">>) >>,
                first |-> StartLine("1")]
          [] OTHER ->
               [corner |-> <<>>,
                puzzle |-> << PuzzleLine(<<"1", ".">>),
                              PuzzleLine(<<"2", ".">>),
                              PuzzleLine(<<"2", "2">>) >>,
                first |-> DEFAULT_KIND]]

\* loader.rs:55-57
level_count == Cardinality(DOMAIN Levels)

\* loader.rs:92
MaxWidth(puzzle) ==
    CHOOSE w \in {Len(puzzle[i]) : i \in DOMAIN puzzle} :
        \A i \in DOMAIN puzzle : Len(puzzle[i]) <= w

\* loader.rs:96-109: column i (0-based) has no empty place below a brick
NoHole(puzzle, i) ==
    \A a, b \in DOMAIN puzzle :
        (a < b /\ puzzle[a][i + 1] # "None") => puzzle[b][i + 1] # "None"

\* validate_level without the search for holes
validate_level_ignores_holes(level) ==
    /\ ~(Len(level.corner) > MAX_SIZE - 1 \/ Len(level.corner) = 1)
    /\ \A i \in DOMAIN level.corner : level.corner[i] <= MAX_SIZE
    /\ ~(Len(level.puzzle) > MAX_SIZE \/ Len(level.puzzle) < 2)
    /\ MaxWidth(level.puzzle) \in 2..MAX_SIZE
    /\ \A a \in DOMAIN level.puzzle : Len(level.puzzle[a]) = MaxWidth(level.puzzle)

\* loader.rs:60-110: TRUE when validate_level returns, FALSE when it panics
\* (it also panics, on an index, when a line is shorter than the widest one)
validate_level(level) ==
    /\ ~(Len(level.corner) > MAX_SIZE - 1 \/ Len(level.corner) = 1)
    /\ \A i \in DOMAIN level.corner : level.corner[i] <= MAX_SIZE
    /\ ~(Len(level.puzzle) > MAX_SIZE \/ Len(level.puzzle) < 2)
    /\ MaxWidth(level.puzzle) \in 2..MAX_SIZE
    /\ \A a \in DOMAIN level.puzzle : Len(level.puzzle[a]) = MaxWidth(level.puzzle)
    /\ \A i \in 0..(MaxWidth(level.puzzle) - 1) : NoHole(level.puzzle, i)

\* field.rs:94-117.  id is history: the index of the brick in its level, 0 for
\* the player's block; nfall is history: the calls of fall on the brick
\* during the current GameField::update
brick_new(x, y, kind, id) ==
    [x |-> x, y |-> y, kind |-> kind,
     scr_x |-> Pt(BRICK_SIZE) * x, scr_y |-> Pt(BRICK_SIZE) * y,
     vel_x |-> 0, vel_y |-> 0, vel_e |-> 0, ticks |-> 0, limit_x |-> 0, limit_y |-> 0,
     id |-> id, nfall |-> 0]

\* field.rs:118-122
start_moving(b, vx, vy, lx, ly) ==
    [b EXCEPT !.vel_x = vx, !.vel_y = vy.m, !.vel_e = vy.s,
              !.limit_x = lx, !.limit_y = ly, !.ticks = TICKS]

\* field.rs:136-138
is_moving(b) == AboveTenth(b.vel_x, 0) \/ AboveTenth(b.vel_y, b.vel_e)

\* field.rs:139-141
is_moving_down(b) == AboveTenth(b.vel_y, b.vel_e)

\* fall that leaves alone a block that is falling already
fall_once(b, speed) ==
    IF ~is_moving(b)
    THEN [b EXCEPT !.vel_x = 0, !.vel_y = speed, !.vel_e = 0,
                   !.limit_x = b.scr_x, !.limit_y = Round32(b.scr_y + Pt(BRICK_SIZE)),
                   !.ticks = TICKS, !.nfall = @ + 1]
    ELSE [b EXCEPT !.nfall = @ + 1]

\* field.rs:127-135
fall(b, speed) ==
    IF ~is_moving(b)
    THEN [b EXCEPT !.vel_x = 0, !.vel_y = speed, !.vel_e = 0,
                   !.limit_x = b.scr_x, !.limit_y = Round32(b.scr_y + Pt(BRICK_SIZE)),
                   !.ticks = TICKS, !.nfall = @ + 1]
    ELSE [b EXCEPT !.limit_y = Round32(@ + Pt(BRICK_SIZE)), !.nfall = @ + 1]

\* field.rs:143-147
stop(b) ==
    [b EXCEPT !.vel_x = 0, !.vel_y = 0, !.vel_e = 0,
              !.x = ToBlocks(b.scr_x), !.y = ToBlocks(b.scr_y)]

\* field.rs:160-177: the block is shifted by its velocity, kept within the
\* limit, and comes to rest on a whole block when it is at the limit
brick_shift(b) ==
    LET sx0 == Add32(b.scr_x, b.vel_x, 0)
        sy0 == Add32(b.scr_y, b.vel_y, b.vel_e)
        sx == IF (sx0 > b.limit_x /\ b.vel_x > 0) \/ (sx0 < b.limit_x /\ b.vel_x < 0)
              THEN b.limit_x ELSE sx0
        sy == IF (sy0 > b.limit_y /\ b.vel_y > 0) \/ (sy0 < b.limit_y /\ b.vel_y < 0)
              THEN b.limit_y ELSE sy0
    IN IF BelowTenth(sx - b.limit_x) /\ BelowTenth(sy - b.limit_y)
       THEN [b EXCEPT !.ticks = TICKS, !.scr_x = sx, !.scr_y = sy,
                      !.x = RoundToBlocks(sx), !.y = RoundToBlocks(sy),
                      !.vel_x = 0, !.vel_y = 0, !.vel_e = 0]
       ELSE [b EXCEPT !.ticks = TICKS, !.scr_x = sx, !.scr_y = sy]

\* field.rs:148-178
brick_update(b) ==
    IF ~is_moving(b) THEN b
    ELSE IF b.ticks - 1 # 0 THEN [b EXCEPT !.ticks = @ - 1]
    ELSE brick_shift(b)

\* field.rs:187-189
pos2puz(x, y) == x + y * WIDTH

\* field.rs:182-184
b2s(x, y) == [x |-> x * Pt(BRICK_SIZE), y |-> y * Pt(BRICK_SIZE)]

\* scores.rs:11-18, Score::default()
ScoreDefault == [attempts |-> 0, wins |-> 0, hiscore |-> 0, first_win |-> 0, help_used |-> FALSE]

\* scores.rs:34-49: the Scores of Scores::new when no hiscore file exists.  levels is the
\* Vec of the source, level n at index n + 1; panicked is set where the
\* source reaches unreachable!(); file is what score_path() holds, <<>> when
\* there is no such file
ScoresNew ==
    [levels |-> <<ScoreDefault>>, max_level |-> 1, curr_level |-> 1, panicked |-> FALSE,
     file |-> <<>>]

\* scores.rs:34-71: Scores::new
scores_new(file) ==
    IF file = <<>> THEN ScoresNew
    ELSE [levels |-> IF file[1].levels = <<>> THEN <<ScoreDefault>> ELSE file[1].levels,
          max_level |-> file[1].max_level, curr_level |-> file[1].max_level,
          panicked |-> FALSE, file |-> file]

\* A usize is counted modulo 2^64: the values from 2^63 up are the negative
\* numbers here, usize::MAX is -1, and + and - wrap as in a release build.
USIZE_MAX == 0 - 1
\* a < b for two usize
LtU(a, b) == IF (a < 0) = (b < 0) THEN a < b ELSE b < 0
\* a + b is more than usize::MAX, a - b is less than 0: the operation panics
\* in a build with overflow checks
AddOverflows(a, b) == (a < 0 /\ b < 0) \/ ((a < 0 \/ b < 0) /\ a + b >= 0)
SubUnderflows(a, b) == LtU(a, b)

\* scores.rs:165-166: the addition of inc_curr_level overflows
inc_overflows(sc, delta) == AddOverflows(sc.curr_level, delta)

\* inc_curr_level without the limit of max_level
inc_curr_level_past_max(sc, delta) == [sc EXCEPT !.curr_level = @ + delta]

\* scores.rs:164-171
inc_curr_level(sc, delta) ==
    [sc EXCEPT !.curr_level = IF LtU(@ + delta, sc.max_level) THEN @ + delta
                              ELSE sc.max_level]

\* scores.rs:175-176: a subtraction of dec_curr_level underflows
dec_underflows(sc, delta) ==
    \/ SubUnderflows(sc.curr_level, 1)
    \/ LtU(delta, sc.curr_level - 1) /\ SubUnderflows(sc.curr_level, delta)

\* dec_curr_level that tests curr_level - delta > 1
dec_curr_level_subtracts_first(sc, delta) ==
    [sc EXCEPT !.curr_level = IF LtU(1, @ - delta) THEN @ - delta ELSE 1]

\* scores.rs:174-181
dec_curr_level(sc, delta) ==
    [sc EXCEPT !.curr_level = IF LtU(delta, @ - 1) THEN @ - delta ELSE 1]

\* scores.rs:73-77
scores_save(sc) == [sc EXCEPT !.file = <<[max_level |-> sc.max_level, levels |-> sc.levels]>>]

\* scores.rs:79-85
level_info(sc, lvl_no) ==
    IF Len(sc.levels) > lvl_no THEN sc.levels[lvl_no + 1] ELSE ScoreDefault

\* scores.rs:95-97 and 129-131
RECURSIVE PadLevels(_, _)
PadLevels(levels, lvl_no) ==
    IF Len(levels) <= lvl_no THEN PadLevels(Append(levels, ScoreDefault), lvl_no) ELSE levels

\* set_win that takes the throws of every win for the hiscore
set_win_last_score(sc, lvl_no, throws, days) ==
    IF level_count <= lvl_no \/ Len(sc.levels) + 1 < lvl_no
    THEN [sc EXCEPT !.panicked = TRUE]
    ELSE LET levels == PadLevels(sc.levels, lvl_no)
             old == levels[lvl_no + 1]
             won == [old EXCEPT !.wins = @ + 1, !.attempts = @ + 1]
             dated == IF won.wins = 1 THEN [won EXCEPT !.first_win = days] ELSE won
             curr == [dated EXCEPT !.hiscore = IF throws > 999 THEN 999 ELSE throws]
         IN scores_save(
              [sc EXCEPT
                 !.levels = [levels EXCEPT ![lvl_no + 1] = curr],
                 !.max_level = IF lvl_no < level_count - 1 /\ lvl_no + 1 > sc.max_level
                               THEN lvl_no + 1 ELSE @,
                 !.curr_level = IF lvl_no < level_count - 1 THEN lvl_no + 1 ELSE @])

\* scores.rs:88-121; days is Local::now() in days
set_win(sc, lvl_no, throws, days) ==
    IF level_count <= lvl_no \/ Len(sc.levels) + 1 < lvl_no
    THEN [sc EXCEPT !.panicked = TRUE]
    ELSE LET levels == PadLevels(sc.levels, lvl_no)
             old == levels[lvl_no + 1]
             won == [old EXCEPT !.wins = @ + 1, !.attempts = @ + 1]
             dated == IF won.wins = 1 THEN [won EXCEPT !.first_win = days] ELSE won
             curr == IF dated.hiscore = 0 \/ dated.hiscore > throws
                     THEN [dated EXCEPT !.hiscore = IF throws > 999 THEN 999 ELSE throws]
                     ELSE dated
         IN scores_save(
              [sc EXCEPT
                 !.levels = [levels EXCEPT ![lvl_no + 1] = curr],
                 !.max_level = IF lvl_no < level_count - 1 /\ lvl_no + 1 > sc.max_level
                               THEN lvl_no + 1 ELSE @,
                 !.curr_level = IF lvl_no < level_count - 1 THEN lvl_no + 1 ELSE @])

\* scores.rs:124-137
set_fail(sc, lvl_no) ==
    IF level_count <= lvl_no \/ Len(sc.levels) + 1 < lvl_no
    THEN [sc EXCEPT !.panicked = TRUE]
    ELSE LET levels == PadLevels(sc.levels, lvl_no) IN
         scores_save([sc EXCEPT !.levels = [levels EXCEPT ![lvl_no + 1].attempts = @ + 1]])

\* scores.rs:142-153
set_help_used(sc, lvl_no) ==
    IF Len(sc.levels) <= lvl_no
    THEN [sc EXCEPT !.panicked = TRUE]
    ELSE IF sc.levels[lvl_no + 1].wins = 0
         THEN scores_save([sc EXCEPT !.levels[lvl_no + 1].help_used = TRUE])
         ELSE sc

\* history: what update_player did in the current GameField::update
Event(what, branch) == [what |-> what, branch |-> branch]
NoEvent == Event("none", "none")

\* field.rs:227-271: GameField::new
GameFieldNew(sc, demo) ==
    [puzzle |-> {},
     bricks |-> <<>>,
     level |-> sc.curr_level,
     state |-> "Unfinished",
     player |-> brick_new(WIDTH - INFO_WIDTH - 1, HEIGHT - 2, "Joker", 0),
     player_row |-> HEIGHT - 2,
     going_back |-> FALSE,
     lvl_score |-> level_info(sc, sc.curr_level),
     score |-> 0,
     demoing |-> demo,
     arrow_down |-> FALSE,
     arrow_pos |-> [x |-> 0, y |-> 0],
     first_brick |-> "None",
     ev |-> NoEvent]

\* field.rs:275-277
is_interactive(f) == ~f.going_back /\ f.state = "Unfinished"

\* go_back that flies back along the row the block has come to
go_back_along_row(f) ==
    LET xlimit == (WIDTH - INFO_WIDTH - 1) * Pt(BRICK_SIZE)
        ylimit == f.player.y * Pt(BRICK_SIZE)
    IN [f EXCEPT !.going_back = TRUE,
                 !.player = start_moving(f.player, Pt(BRICK_DEF_SPEED), Quot32(0, 1),
                                         xlimit, ylimit)]

\* field.rs:280-287
go_back(f) ==
    LET xlimit == (WIDTH - INFO_WIDTH - 1) * Pt(BRICK_SIZE)
        ylimit == f.player_row * Pt(BRICK_SIZE)
        \* xn = (xlimit - scr_pos.x) / BRICK_DEF_SPEED, a whole number of ticks:
        \* the block is in a column to the left of its home
        xn == (xlimit - f.player.scr_x) \div Pt(BRICK_DEF_SPEED)
        dy == Quot32(Round32(f.player_row * Pt(BRICK_SIZE) - f.player.scr_y), xn)
    IN [f EXCEPT !.going_back = TRUE,
                 !.player = start_moving(f.player, Pt(BRICK_DEF_SPEED), dy, xlimit, ylimit)]

\* field.rs:321 and 372: the filter of the bricks at a place
At(cx, cy, b) == b.x = cx /\ b.y = cy

\* field.rs:321-331 and 371-382: the loop over the bricks at a place;
\* st is [exists, removed, new_kind]
RECURSIVE Encounter(_, _, _, _, _)
Encounter(bricks, i, cx, cy, st) ==
    IF i > Len(bricks) THEN st
    ELSE IF At(cx, cy, bricks[i])
         THEN Encounter(bricks, i + 1, cx, cy,
                        [exists |-> TRUE,
                         removed |-> st.removed \/ bricks[i].kind = st.new_kind
                                                \/ st.new_kind = "Joker",
                         new_kind |-> bricks[i].kind])
         ELSE Encounter(bricks, i + 1, cx, cy, st)

\* field.rs:338, 353, 393, 417: bricks.retain(|b| b.x != cx || b.y != cy)
retain_off(bricks, cx, cy) == SelectSeq(bricks, LAMBDA b : b.x # cx \/ b.y # cy)

\* fall_above with a speed of one point a tick
fall_above_slowly(bricks, cx, y) ==
    [i \in DOMAIN bricks |->
        IF bricks[i].x = cx /\ bricks[i].y < y
        THEN fall(bricks[i], Pt(1)) ELSE bricks[i]]

\* the loop of fall_above without the test of the row
fall_whole_column(bricks, cx, y) ==
    [i \in DOMAIN bricks |->
        IF bricks[i].x = cx THEN fall(bricks[i], Pt(BRICK_FALL_SPEED)) ELSE bricks[i]]

\* field.rs:339-343, 354-358, 394-398, 418-422: fall for each brick of column cx
\* above row y
fall_above(bricks, cx, y) ==
    [i \in DOMAIN bricks |->
        IF bricks[i].x = cx /\ bricks[i].y < y
        THEN fall(bricks[i], Pt(BRICK_FALL_SPEED)) ELSE bricks[i]]

\* field.rs:738-784; bx = 0 stands for the panic of line 757
RECURSIVE NearestBelow(_, _, _, _, _)
NearestBelow(bricks, i, bx, row, st) ==
    IF i > Len(bricks) THEN st
    ELSE IF bricks[i].x = bx /\ bricks[i].y >= row /\ bricks[i].y < st.by
         THEN NearestBelow(bricks, i + 1, bx, row, [by |-> bricks[i].y, first |-> bricks[i].kind])
         ELSE NearestBelow(bricks, i + 1, bx, row, st)

\* field.rs:771-776 and 720-726: the largest x of the bricks of a row, 0 if none
RECURSIVE MaxXInRow(_, _, _, _)
MaxXInRow(bricks, i, row, x) ==
    IF i > Len(bricks) THEN x
    ELSE MaxXInRow(bricks, i + 1, row,
                   IF bricks[i].y = row /\ bricks[i].x > x THEN bricks[i].x ELSE x)

\* field.rs:749-755: the first free place of a row among the columns 0..MAX_SIZE+3
FirstFree(puzzle, row) ==
    LET free == {i \in 0..(MAX_SIZE + 3) : (row * WIDTH + i) \notin puzzle} IN
    IF free = {} THEN 0 ELSE CHOOSE i \in free : \A j \in free : i <= j

\* field.rs:728-732: the last wall of a row among the columns 0..MAX_SIZE+3
LastWall(puzzle, row) ==
    LET walls == {i \in 0..(MAX_SIZE + 3) : (row * WIDTH + i) \in puzzle} IN
    IF walls = {} THEN 0 ELSE CHOOSE i \in walls : \A j \in walls : i >= j

\* target that looks down column 1 from every row
target_down_column_one(f, row) ==
    LET down == IF row < HEIGHT - 1 - MAX_SIZE THEN TRUE
                ELSE ~\E i \in DOMAIN f.bricks : f.bricks[i].y = row
    IN IF down
       THEN LET st == NearestBelow(f.bricks, 1, 1, row, [by |-> HEIGHT - 1, first |-> "None"])
            IN [down |-> TRUE, x |-> 1, y |-> st.by - 1, kind |-> st.first]
       ELSE LET bx == MaxXInRow(f.bricks, 1, row, 0) + 1
                hit == SelectSeq(f.bricks, LAMBDA b : b.y = row /\ b.x = bx - 1)
            IN [down |-> FALSE, x |-> bx, y |-> row,
                kind |-> IF hit = <<>> THEN "None" ELSE hit[Len(hit)].kind]

\* field.rs:738-784
target(f, row) ==
    LET down == IF row < HEIGHT - 1 - MAX_SIZE THEN TRUE
                ELSE ~\E i \in DOMAIN f.bricks : f.bricks[i].y = row
    IN IF down
       THEN LET bx == IF row >= HEIGHT - 1 - MAX_SIZE THEN 1 ELSE FirstFree(f.puzzle, row)
                st == NearestBelow(f.bricks, 1, bx, row, [by |-> HEIGHT - 1, first |-> "None"])
            IN [down |-> TRUE, x |-> bx, y |-> st.by - 1, kind |-> st.first]
       ELSE LET bx == MaxXInRow(f.bricks, 1, row, 0) + 1
                hit == SelectSeq(f.bricks, LAMBDA b : b.y = row /\ b.x = bx - 1)
            IN [down |-> FALSE, x |-> bx, y |-> row,
                kind |-> IF hit = <<>> THEN "None" ELSE hit[Len(hit)].kind]

\* field.rs:786-795
recalc_arrow(f) ==
    LET t == target(f, f.player.y) IN
    [f EXCEPT !.arrow_pos = IF t.down THEN b2s(t.x, t.y) ELSE b2s(t.x + 1, t.y),
              !.first_brick = t.kind,
              !.arrow_down = t.down]

\* calc_state that never reports a failed level
calc_state_never_looser(f) ==
    IF f.bricks = <<>>
    THEN IF f.level + 1 >= level_count THEN "Completed" ELSE "Winner"
    ELSE "Unfinished"

\* calc_state that does not look at the row above the floor
calc_state_skips_last_row(f) ==
    IF f.bricks = <<>>
    THEN IF f.level + 1 >= level_count THEN "Completed" ELSE "Winner"
    ELSE IF f.player.kind = "Joker" THEN "Unfinished"
    ELSE IF \E y \in 1..(HEIGHT - 3) : target(f, y).kind = f.player.kind
         THEN "Unfinished"
         ELSE "Looser"

\* field.rs:797-816
calc_state(f) ==
    IF f.bricks = <<>>
    THEN IF f.level + 1 >= level_count THEN "Completed" ELSE "Winner"
    ELSE IF f.player.kind = "Joker" THEN "Unfinished"
    ELSE IF \E y \in 1..(HEIGHT - 2) : target(f, y).kind = f.player.kind
         THEN "Unfinished"
         ELSE "Looser"

\* field.rs:655-688: the walls of a level, as the set of the places of the
\* puzzle array that hold 1
LevelWalls(lvl) ==
    {pos2puz(i, 0) : i \in 0..(WIDTH - 1)}
    \cup {pos2puz(i, HEIGHT - 1) : i \in 0..(WIDTH - 1)}
    \cup {pos2puz(0, i) : i \in 1..(HEIGHT - 2)}
    \cup {pos2puz(WIDTH - p - 1, i) : p \in 0..(INFO_WIDTH - 1), i \in 1..(HEIGHT - 2)}
    \cup (IF lvl.corner = <<>>
          THEN UNION {{pos2puz(j, i) : j \in 1..(MAX_SIZE - i)} : i \in 1..MAX_SIZE}
          ELSE UNION {{pos2puz(x, y) : x \in 1..lvl.corner[y]} : y \in DOMAIN lvl.corner})

\* field.rs:690-701: the bricks of a level in the order of the puzzle lines; n
\* counts the places of the puzzle, line by line
RECURSIVE LevelBricks(_, _, _)
LevelBricks(puzzle, n, acc) ==
    LET w == MaxWidth(puzzle)
        cnt == Len(puzzle)
        yidx == n \div w
        xidx == n % w
    IN IF n >= cnt * w THEN acc
       ELSE IF puzzle[yidx + 1][xidx + 1] = "None" THEN LevelBricks(puzzle, n + 1, acc)
       ELSE LevelBricks(puzzle, n + 1,
                Append(acc, brick_new(xidx + 1, HEIGHT - cnt + yidx - 1,
                                      puzzle[yidx + 1][xidx + 1], Len(acc) + 1)))

\* field.rs:653-705: GameField::load
field_load(f, sc, lvl_no) ==
    LET lvl == Levels[lvl_no] IN
    Then([f EXCEPT !.state = "Unfinished",
                   !.puzzle = LevelWalls(lvl),
                   !.player = brick_new(WIDTH - INFO_WIDTH - 1, HEIGHT - 2, lvl.first, 0),
                   !.bricks = LevelBricks(lvl.puzzle, 0, <<>>),
                   !.lvl_score = level_info(sc, f.level)],
         recalc_arrow)

\* field.rs:707-712
can_throw(f) ==
    /\ ~is_moving(f.player)
    /\ f.state = "Unfinished"
    /\ f.first_brick # "None"
    /\ (f.player.kind = "Joker" \/ f.player.kind = f.first_brick)

\* throw_brick that counts a throw it does not accept
throw_brick_counts_always(f) ==
    IF ~can_throw(f) THEN [f EXCEPT !.score = @ + 1]
    ELSE LET inrow == MaxXInRow(f.bricks, 1, f.player.y, 0)
             x == (IF inrow = 0 THEN LastWall(f.puzzle, f.player.y) ELSE inrow) + 1
             to == b2s(x, f.player.y)
         IN [f EXCEPT !.score = @ + 1,
                      !.player_row = f.player.y,
                      !.player = start_moving(@, 0 - Pt(BRICK_DEF_SPEED), Quot32(0, 1),
                                              to.x, to.y)]

\* throw_brick that stops the block at the place of the last brick or wall
throw_brick_into_obstacle(f) ==
    IF ~can_throw(f) THEN f
    ELSE LET inrow == MaxXInRow(f.bricks, 1, f.player.y, 0)
             x == IF inrow = 0 THEN LastWall(f.puzzle, f.player.y) ELSE inrow
             to == b2s(x, f.player.y)
         IN [f EXCEPT !.score = @ + 1,
                      !.player_row = f.player.y,
                      !.player = start_moving(@, 0 - Pt(BRICK_DEF_SPEED), Quot32(0, 1),
                                              to.x, to.y)]

\* field.rs:714-736
throw_brick(f) ==
    IF ~can_throw(f) THEN f
    ELSE LET inrow == MaxXInRow(f.bricks, 1, f.player.y, 0)
             x == (IF inrow = 0 THEN LastWall(f.puzzle, f.player.y) ELSE inrow) + 1
             to == b2s(x, f.player.y)
         IN [f EXCEPT !.score = @ + 1,
                      !.player_row = f.player.y,
                      !.player = start_moving(@, 0 - Pt(BRICK_DEF_SPEED), Quot32(0, 1),
                                              to.x, to.y)]

\* field.rs:630-639
player_down(f) ==
    IF is_moving(f.player) THEN f
    ELSE IF f.player.y < HEIGHT - 2
         THEN recalc_arrow([f EXCEPT !.player.y = @ + 1,
                                     !.player.scr_x = b2s(f.player.x, f.player.y + 1).x,
                                     !.player.scr_y = b2s(f.player.x, f.player.y + 1).y])
         ELSE recalc_arrow(f)

\* player_up that leaves the arrow as it was
player_up_keeps_arrow(f) ==
    IF is_moving(f.player) THEN f
    ELSE IF f.player.y > 1
         THEN [f EXCEPT !.player.y = @ - 1,
                        !.player.scr_x = b2s(f.player.x, f.player.y - 1).x,
                        !.player.scr_y = b2s(f.player.x, f.player.y - 1).y]
         ELSE f

\* field.rs:641-650
player_up(f) ==
    IF is_moving(f.player) THEN f
    ELSE IF f.player.y > 1
         THEN recalc_arrow([f EXCEPT !.player.y = @ - 1,
                                     !.player.scr_x = b2s(f.player.x, f.player.y - 1).x,
                                     !.player.scr_y = b2s(f.player.x, f.player.y - 1).y])
         ELSE recalc_arrow(f)

\* field.rs:301-306: the player's block is back
arrive_home(f) ==
    Then(recalc_arrow([f EXCEPT !.going_back = FALSE]),
         LAMBDA g : [g EXCEPT !.state = calc_state(g), !.ev = Event("home", "back")])

\* resolve_falling that sends the block home from a brick that matches it,
\* and lets it fall on from one that does not
resolve_falling_returns_on_match(f) ==
    LET x == f.player.x
        y == f.player.y
        st == Encounter(f.bricks, 1, x, y + 1,
                        [exists |-> FALSE, removed |-> FALSE, new_kind |-> f.player.kind])
    IN IF y = HEIGHT - 2
       THEN go_back([f EXCEPT !.player = stop(@), !.ev = Event("floor", "vertical")])
       ELSE IF st.removed
       THEN go_back([f EXCEPT !.player = stop([@ EXCEPT !.kind = st.new_kind]),
                              !.bricks = fall_above(retain_off(@, x, y + 1), x, y),
                              !.ev = Event("match", "vertical")])
       ELSE [f EXCEPT !.player = fall([@ EXCEPT !.kind = st.new_kind], Pt(BRICK_DEF_SPEED)),
                      !.bricks = fall_above(retain_off(@, x, y + 1), x, y),
                      !.ev = Event(IF st.exists THEN "mismatch" ELSE "drop", "vertical")]

\* resolve_falling that leaves the block its kind when it meets a brick of
\* another kind
resolve_falling_keeps_kind(f) ==
    LET x == f.player.x
        y == f.player.y
        st == Encounter(f.bricks, 1, x, y + 1,
                        [exists |-> FALSE, removed |-> FALSE, new_kind |-> f.player.kind])
    IN IF y = HEIGHT - 2
       THEN go_back([f EXCEPT !.player = stop(@), !.ev = Event("floor", "vertical")])
       ELSE IF ~st.removed /\ st.exists
       THEN go_back([f EXCEPT !.player = stop(@),
                              !.bricks = fall_above(retain_off(@, x, y + 1), x, y),
                              !.ev = Event("mismatch", "vertical")])
       ELSE [f EXCEPT !.player = fall([@ EXCEPT !.kind = st.new_kind], Pt(BRICK_DEF_SPEED)),
                      !.bricks = fall_above(retain_off(@, x, y + 1), x, y),
                      !.ev = Event(IF st.exists THEN "match" ELSE "drop", "vertical")]

\* field.rs:310-358: the player's block has fallen by one block
resolve_falling(f) ==
    LET x == f.player.x
        y == f.player.y
        st == Encounter(f.bricks, 1, x, y + 1,
                        [exists |-> FALSE, removed |-> FALSE, new_kind |-> f.player.kind])
    IN IF y = HEIGHT - 2
       THEN go_back([f EXCEPT !.player = stop(@), !.ev = Event("floor", "vertical")])
       ELSE IF ~st.removed /\ st.exists
       THEN go_back([f EXCEPT !.player = stop([@ EXCEPT !.kind = st.new_kind]),
                              !.bricks = fall_above(retain_off(@, x, y + 1), x, y),
                              !.ev = Event("mismatch", "vertical")])
       ELSE [f EXCEPT !.player = fall([@ EXCEPT !.kind = st.new_kind], Pt(BRICK_DEF_SPEED)),
                      !.bricks = fall_above(retain_off(@, x, y + 1), x, y),
                      !.ev = Event(IF st.exists THEN "match" ELSE "drop", "vertical")]

\* field.rs:385-387 and 408-410: one block further to the left
fly_on(b, x, y) ==
    [b EXCEPT !.vel_x = 0 - Pt(BRICK_DEF_SPEED), !.vel_y = 0, !.vel_e = 0,
              !.limit_x = Pt(BRICK_SIZE) * x, !.limit_y = Pt(BRICK_SIZE) * y,
              !.ticks = TICKS]

\* resolve_flying that sends the block home from a brick of its row that
\* matches it
resolve_flying_returns_on_match(f) ==
    LET x == f.player.x
        y == f.player.y
        wall == pos2puz(x - 1, y) \in f.puzzle
        dx == IF wall THEN 0 ELSE 0 - 1
        dy == IF wall THEN 1 ELSE 0
        st == Encounter(f.bricks, 1, x + dx, y + dy,
                        [exists |-> FALSE, removed |-> FALSE, new_kind |-> f.player.kind])
        cleared == fall_above(retain_off(f.bricks, x + dx, y + dy), x + dx, y)
    IN IF ~st.removed /\ ~st.exists /\ dx # 0 /\ pos2puz(x - 1, y) \notin f.puzzle
       THEN [f EXCEPT !.player = fly_on(@, x + dx, y), !.ev = Event("pass", "horizontal")]
       ELSE IF st.removed
       THEN LET g == [f EXCEPT !.player.kind = st.new_kind, !.bricks = cleared,
                               !.ev = Event("match", IF dx = 0 THEN "wall" ELSE "horizontal")]
            IN IF dx = 0
               THEN IF y = HEIGHT - 2
                    THEN go_back([g EXCEPT !.player = stop(@)])
                    ELSE [g EXCEPT !.player = fall(@, Pt(BRICK_DEF_SPEED))]
               ELSE go_back([g EXCEPT !.player = stop(@)])
       ELSE IF st.exists
       THEN go_back([f EXCEPT !.player = [stop(@) EXCEPT !.kind = st.new_kind],
                              !.bricks = cleared,
                              !.ev = Event("mismatch", IF dx = 0 THEN "wall" ELSE "horizontal")])
       ELSE IF y = HEIGHT - 2
       THEN go_back([f EXCEPT !.player = stop(@), !.ev = Event("floor", "wall")])
       ELSE [f EXCEPT !.player = fall(@, Pt(BRICK_DEF_SPEED)), !.ev = Event("drop", "wall")]

\* resolve_flying that leaves in the field the brick that does not match the
\* block
resolve_flying_leaves_brick(f) ==
    LET x == f.player.x
        y == f.player.y
        wall == pos2puz(x - 1, y) \in f.puzzle
        dx == IF wall THEN 0 ELSE 0 - 1
        dy == IF wall THEN 1 ELSE 0
        st == Encounter(f.bricks, 1, x + dx, y + dy,
                        [exists |-> FALSE, removed |-> FALSE, new_kind |-> f.player.kind])
        cleared == fall_above(retain_off(f.bricks, x + dx, y + dy), x + dx, y)
    IN IF ~st.removed /\ ~st.exists /\ dx # 0 /\ pos2puz(x - 1, y) \notin f.puzzle
       THEN [f EXCEPT !.player = fly_on(@, x + dx, y), !.ev = Event("pass", "horizontal")]
       ELSE IF st.removed
       THEN LET g == [f EXCEPT !.player.kind = st.new_kind, !.bricks = cleared,
                               !.ev = Event("match", IF dx = 0 THEN "wall" ELSE "horizontal")]
            IN IF dx = 0
               THEN IF y = HEIGHT - 2
                    THEN go_back([g EXCEPT !.player = stop(@)])
                    ELSE [g EXCEPT !.player = fall(@, Pt(BRICK_DEF_SPEED))]
               ELSE [g EXCEPT !.player = fly_on(@, x + dx, y)]
       ELSE IF st.exists
       THEN go_back([f EXCEPT !.player = [stop(@) EXCEPT !.kind = st.new_kind],
                              !.ev = Event("mismatch", IF dx = 0 THEN "wall" ELSE "horizontal")])
       ELSE IF y = HEIGHT - 2
       THEN go_back([f EXCEPT !.player = stop(@), !.ev = Event("floor", "wall")])
       ELSE [f EXCEPT !.player = fall(@, Pt(BRICK_DEF_SPEED)), !.ev = Event("drop", "wall")]

\* resolve_flying that leaves the block its kind when it removes a brick
resolve_flying_keeps_kind(f) ==
    LET x == f.player.x
        y == f.player.y
        wall == pos2puz(x - 1, y) \in f.puzzle
        dx == IF wall THEN 0 ELSE 0 - 1
        dy == IF wall THEN 1 ELSE 0
        st == Encounter(f.bricks, 1, x + dx, y + dy,
                        [exists |-> FALSE, removed |-> FALSE, new_kind |-> f.player.kind])
        cleared == fall_above(retain_off(f.bricks, x + dx, y + dy), x + dx, y)
    IN IF ~st.removed /\ ~st.exists /\ dx # 0 /\ pos2puz(x - 1, y) \notin f.puzzle
       THEN [f EXCEPT !.player = fly_on(@, x + dx, y), !.ev = Event("pass", "horizontal")]
       ELSE IF st.removed
       THEN LET g == [f EXCEPT !.bricks = cleared,
                               !.ev = Event("match", IF dx = 0 THEN "wall" ELSE "horizontal")]
            IN IF dx = 0
               THEN IF y = HEIGHT - 2
                    THEN go_back([g EXCEPT !.player = stop(@)])
                    ELSE [g EXCEPT !.player = fall(@, Pt(BRICK_DEF_SPEED))]
               ELSE [g EXCEPT !.player = fly_on(@, x + dx, y)]
       ELSE IF st.exists
       THEN go_back([f EXCEPT !.player = [stop(@) EXCEPT !.kind = st.new_kind],
                              !.bricks = cleared,
                              !.ev = Event("mismatch", IF dx = 0 THEN "wall" ELSE "horizontal")])
       ELSE IF y = HEIGHT - 2
       THEN go_back([f EXCEPT !.player = stop(@), !.ev = Event("floor", "wall")])
       ELSE [f EXCEPT !.player = fall(@, Pt(BRICK_DEF_SPEED)), !.ev = Event("drop", "wall")]

\* field.rs:359-435: the player's block has flown to its limit
resolve_flying(f) ==
    LET x == f.player.x
        y == f.player.y
        wall == pos2puz(x - 1, y) \in f.puzzle
        dx == IF wall THEN 0 ELSE 0 - 1
        dy == IF wall THEN 1 ELSE 0
        st == Encounter(f.bricks, 1, x + dx, y + dy,
                        [exists |-> FALSE, removed |-> FALSE, new_kind |-> f.player.kind])
        cleared == fall_above(retain_off(f.bricks, x + dx, y + dy), x + dx, y)
    IN IF ~st.removed /\ ~st.exists /\ dx # 0 /\ pos2puz(x - 1, y) \notin f.puzzle
       THEN [f EXCEPT !.player = fly_on(@, x + dx, y), !.ev = Event("pass", "horizontal")]
       ELSE IF st.removed
       THEN LET g == [f EXCEPT !.player.kind = st.new_kind, !.bricks = cleared,
                               !.ev = Event("match", IF dx = 0 THEN "wall" ELSE "horizontal")]
            IN IF dx = 0
               THEN IF y = HEIGHT - 2
                    THEN go_back([g EXCEPT !.player = stop(@)])
                    ELSE [g EXCEPT !.player = fall(@, Pt(BRICK_DEF_SPEED))]
               ELSE [g EXCEPT !.player = fly_on(@, x + dx, y)]
       ELSE IF st.exists
       THEN go_back([f EXCEPT !.player = [stop(@) EXCEPT !.kind = st.new_kind],
                              !.bricks = cleared,
                              !.ev = Event("mismatch", IF dx = 0 THEN "wall" ELSE "horizontal")])
       ELSE IF y = HEIGHT - 2
       THEN go_back([f EXCEPT !.player = stop(@), !.ev = Event("floor", "wall")])
       ELSE [f EXCEPT !.player = fall(@, Pt(BRICK_DEF_SPEED)), !.ev = Event("drop", "wall")]

\* field.rs:289-436
update_player(f) ==
    LET moved == is_moving(f.player)
        moved_down == is_moving_down(f.player)
    IN Then([f EXCEPT !.player = brick_update(@)],
            LAMBDA g :
                IF ~moved \/ is_moving(g.player) THEN g
                ELSE IF g.going_back THEN arrive_home(g)
                ELSE IF moved_down THEN resolve_falling(g)
                ELSE resolve_flying(g))

\* the history fields of the field at the start of GameField::update
ClearHistory(f) ==
    [f EXCEPT !.ev = NoEvent,
              !.player.nfall = 0,
              !.bricks = [i \in DOMAIN f.bricks |-> [f.bricks[i] EXCEPT !.nfall = 0]]]

\* field.rs:440-442
update_bricks(f) == [f EXCEPT !.bricks = [i \in DOMAIN f.bricks |-> brick_update(f.bricks[i])]]

\* what GameField::update returns: the field, the hiscores it shares with
\* the scenes, the transition, and whether it loaded a level
Updated(f, sc, tr, loaded) == [field |-> f, scores |-> sc, transition |-> tr, loaded |-> loaded]

\* the end of GameField::update that restarts a lost level without set_fail
update_end_restart_uncounted(f, sc, key, days) ==
    IF f.going_back THEN Updated(f, sc, "None", FALSE)
    ELSE IF f.state = "Unfinished" THEN Updated(f, sc, "None", FALSE)
    ELSE IF ~key THEN Updated(f, sc, "None", FALSE)
    ELSE IF f.state = "Completed"
    THEN Updated(f, IF ~f.demoing THEN set_win(sc, f.level, f.score, days) ELSE sc,
                 "Pop", FALSE)
    ELSE IF f.state = "Looser"
    THEN Updated([field_load(f, sc, f.level) EXCEPT !.score = 0], sc, "None", TRUE)
    ELSE IF ~f.demoing
    THEN Then(set_win(sc, f.level, f.score, days),
              LAMBDA won :
                  Updated(field_load([f EXCEPT !.level = @ + 1, !.score = 0], won, f.level + 1),
                          won, "None", TRUE))
    ELSE Updated(f, sc, "None", FALSE)

\* field.rs:446-489: the end of GameField::update, after update_player
update_end(f, sc, key, days) ==
    IF f.going_back THEN Updated(f, sc, "None", FALSE)
    ELSE IF f.state = "Unfinished" THEN Updated(f, sc, "None", FALSE)
    ELSE IF ~key THEN Updated(f, sc, "None", FALSE)
    ELSE IF f.state = "Completed"
    THEN Updated(f, IF ~f.demoing THEN set_win(sc, f.level, f.score, days) ELSE sc,
                 "Pop", FALSE)
    ELSE IF f.state = "Looser"
    THEN Then(set_fail(sc, f.level),
              LAMBDA failed :
                  Updated([field_load(f, failed, f.level) EXCEPT !.score = 0],
                          failed, "None", TRUE))
    ELSE IF ~f.demoing
    THEN Then(set_win(sc, f.level, f.score, days),
              LAMBDA won :
                  Updated(field_load([f EXCEPT !.level = @ + 1, !.score = 0], won, f.level + 1),
                          won, "None", TRUE))
    ELSE Updated(f, sc, "None", FALSE)

\* field.rs:439-444: the part of GameField::update that moves the blocks
update_field(f0) == Then(Then(ClearHistory(f0), update_bricks), update_player)

\* field.rs:438-490; key is is_key_pressed(Space) || is_key_pressed(Return),
\* days is the date set_win reads
update(f0, sc, key, days) ==
    Then(update_field(f0), LAMBDA f : update_end(f, sc, key, days))

(***************************************************************************)
(* Part 3.  A caller of the replay engine: it records on an engine with a  *)
(* monotonic clock, saves, loads into any engine and plays back by calling *)
(* next_replay_action at the ticks 1, 2, 3, ... as DemoScene::update does. *)
(***************************************************************************)

\* longest log the caller records
MaxLen == 2
\* the longest pause of the caller between two actions, beyond MAX_DELAY
ExtraGap == 70
\* the clock advances by one of these between two recorded actions
Gaps == {0, 1, MAX_DELAY, MAX_DELAY + ExtraGap}
\* the levels the caller saves to; load also reads the demo level
SaveLevels == {1}
LoadLevels == SaveLevels \cup {DEMO_LEVEL}

\* a replay file written by a program of another format version
OtherVersionFile(v) ==
    Serialize([version |-> v, moves |-> <<[tick |-> 5, act |-> "Up"]>>])
\* a version-1 file whose ticks were never normalized
RawFile ==
    Serialize([version |-> REPLAY_VERSION,
               moves |-> <<[tick |-> MAX_DELAY + ExtraGap, act |-> "Down"],
                           [tick |-> MAX_DELAY + ExtraGap + 1, act |-> "Throw"]>>])
InitialFiles == {NoFile, OtherVersionFile(REPLAY_VERSION - 1),
                 OtherVersionFile(REPLAY_VERSION + 1), RawFile}

VARIABLES
    eng,       \* the ReplayEngine of the scene on top (PlayScene::replay, DemoScene::replay)
    files,     \* replay_path(): level -> stored bytes, NoFile when absent
    clock,     \* the tick counter of the scene on top (PlayScene::tick, DemoScene::tick)
    out,       \* history: the (tick, action) pairs playback has delivered
    recorded,  \* history: the moves passed to add_action since rec_start
    fileOrig,  \* history: per level, the moves as recorded of the stored file
    src,       \* history: what the last successful load read, and into what
    last,      \* history: the last call and its level
    field,     \* the GameField of the scene on top
    scores,    \* the Scores the scenes share
    flight,    \* history: the throw in progress, and how the last one came home
    scene,     \* the scene on top of the scene stack
    under      \* the PlayScene under a DemoScene it pushed, <<>> when none

engVars == <<eng, files, clock, out, recorded, fileOrig, src, last>>
gameVars == <<field, scores, flight, scene, under>>
vars == <<eng, files, clock, out, recorded, fileOrig, src, last, field, scores, flight, scene, under>>

Foreign == <<[tick |-> 0, act |-> "Foreign"]>>
NoSrc == [lvl |-> DEMO_LEVEL, fresh |-> FALSE, orig |-> Foreign, saved |-> <<>>]
NoCall == [op |-> "none", lvl |-> DEMO_LEVEL]

\* the main menu is on top (mainmenu.rs); playing: the demo's engine is
\* replaying; rules: DemoScene::rules_shown.
\* quiet is history: the frames of the scene in which the field took keys
\* and the player pressed none.  upd and gaps are history: the calls of
\* field.update of the scene since the last action it applied, and at every
\* action applied the calls between it and the one before
Menu == [kind |-> "menu", playing |-> FALSE, rules |-> FALSE, quiet |-> 0, upd |-> 0, gaps |-> <<>>]
\* play.rs:35-42
Play == [kind |-> "play", playing |-> FALSE, rules |-> FALSE, quiet |-> 0, upd |-> 0, gaps |-> <<>>]
\* demo.rs:33-44; playing is is_playing() of the demo's engine
Demo(lvl, playing) ==
    [kind |-> "demo", playing |-> playing, rules |-> lvl = DEMO_LEVEL, quiet |-> 0, upd |-> 0,
     gaps |-> <<>>]
\* history: the scene has applied n actions in a frame
Acted(sc, n) ==
    IF n = 0 THEN sc
    ELSE [sc EXCEPT !.gaps = @ \o <<sc.upd>> \o [i \in 1..(n - 1) |-> 0], !.upd = 0]
\* history: the scene has called field.update
Stepped(sc) == [sc EXCEPT !.upd = @ + 1]
\* a field before any level is loaded into it
NoField == GameFieldNew(ScoresNew, FALSE)
NoFlight ==
    [active |-> FALSE, landed |-> FALSE, n |-> 0, from |-> 0, met |-> 0, home |-> NoField]

\* the caller of this part has no game field
NoGame ==
    /\ field = NoField
    /\ scores = ScoresNew
    /\ flight = NoFlight
    /\ scene = Menu
    /\ under = <<>>

EngInit ==
    /\ eng = ReplayEngineNew
    /\ files \in [SaveLevels -> InitialFiles]
    /\ clock = 0
    /\ out = <<>>
    /\ recorded = <<>>
    /\ fileOrig = [l \in LoadLevels |-> Foreign]
    /\ src = NoSrc
    /\ last = NoCall
    /\ NoGame

\* play.rs:40-41, demo.rs:38-39: a scene is created with a new engine and tick 0
ENew ==
    /\ eng' = ReplayEngineNew
    /\ clock' = 0
    /\ out' = <<>>
    /\ recorded' = <<>>
    /\ src' = NoSrc
    /\ last' = [op |-> "new", lvl |-> DEMO_LEVEL]
    /\ UNCHANGED <<files, fileOrig>>
    /\ UNCHANGED gameVars

\* play.rs:44 and play.rs:120-123: rec_start with the tick counter at 0; the caller
\* starts no new recording once it has saved one
ERecStart ==
    /\ eng.state # "Replaying"
    /\ \A l \in LoadLevels : fileOrig[l] = Foreign
    /\ eng' = rec_start(eng)
    /\ clock' = 0
    /\ out' = <<>>
    /\ recorded' = <<>>
    /\ src' = NoSrc
    /\ last' = [op |-> "rec_start", lvl |-> DEMO_LEVEL]
    /\ UNCHANGED <<files, fileOrig>>
    /\ UNCHANGED gameVars

\* play.rs:80-91: the clock moves on, then a key is recorded
EAddAction ==
    /\ eng.state = "Recording"
    /\ Len(eng.replay.moves) < MaxLen
    /\ \E k \in Keys, g \in Gaps :
         /\ clock' = clock + g
         /\ eng' = add_action(eng, clock', k)
         /\ recorded' = Append(recorded, [tick |-> clock', act |-> key_to_action(k)])
    /\ last' = [op |-> "add_action", lvl |-> DEMO_LEVEL]
    /\ UNCHANGED <<files, out, fileOrig, src>>
    /\ UNCHANGED gameVars

\* play.rs:114-116
ESave ==
    \E l \in SaveLevels :
        /\ eng.state = "Recording"
        /\ eng' = save_engine(eng)
        /\ files' = save_files(eng, files, l)
        /\ fileOrig' = IF eng.replay.moves = <<>> THEN fileOrig
                       ELSE [fileOrig EXCEPT ![l] = recorded]
        /\ last' = [op |-> "save", lvl |-> l]
        /\ UNCHANGED <<clock, out, recorded, src>>
        /\ UNCHANGED gameVars

\* demo.rs:43, play.rs:94-95; the caller restarts its tick counter with a new replay
ELoad ==
    /\ eng.state # "Recording"
    /\ \E l \in LoadLevels :
        /\ eng' = load(eng, files, l)
        /\ src' = IF ReplayBytes(files, l) # NoFile
                     /\ Deserialize(ReplayBytes(files, l)).version = REPLAY_VERSION
                  THEN [lvl |-> l, fresh |-> (eng = ReplayEngineNew),
                        orig |-> fileOrig[l],
                        saved |-> Deserialize(ReplayBytes(files, l)).moves]
                  ELSE src
        /\ out' = IF load(eng, files, l) = eng THEN out ELSE <<>>
        /\ clock' = IF load(eng, files, l) = eng THEN clock ELSE 0
        /\ last' = [op |-> "load", lvl |-> l]
        /\ UNCHANGED <<files, recorded, fileOrig>>
        /\ UNCHANGED gameVars

\* demo.rs:44
EReplayStart ==
    /\ eng.state = "Idle"
    /\ eng' = replay_start(eng)
    /\ clock' = 0
    /\ out' = <<>>
    /\ last' = [op |-> "replay_start", lvl |-> DEMO_LEVEL]
    /\ UNCHANGED <<files, recorded, fileOrig, src>>
    /\ UNCHANGED gameVars

\* demo.rs:90-106: one tick of playback
EDriveTick ==
    /\ eng.state = "Replaying"
    /\ src.fresh
    /\ clock + eng.shift <= eng.replay.moves[Len(eng.replay.moves)].tick
    /\ clock' = clock + 1
    /\ LET d == Drain(eng, clock', <<>>) IN
         /\ eng' = d.eng
         /\ out' = out \o [i \in 1..Len(d.acts) |-> [tick |-> clock', act |-> d.acts[i]]]
    /\ last' = [op |-> "drive", lvl |-> DEMO_LEVEL]
    /\ UNCHANGED <<files, recorded, fileOrig, src>>
    /\ UNCHANGED gameVars

EngNext ==
    \/ ENew
    \/ ERecStart
    \/ EAddAction
    \/ ESave
    \/ ELoad
    \/ EReplayStart
    \/ EDriveTick

SpecEngine == EngInit /\ [][EngNext]_vars

(***************************************************************************)
(* Part 4.  The game field as the scenes call it.  Each action is one      *)
(* call of a public operation of GameField, or the creation or the end of  *)
(* a scene, under the conditions in which PlayScene::update and            *)
(* DemoScene::update make the call.  The replay engine of a demo is left   *)
(* out here: a demo may be given any action at any time until its replay   *)
(* ends.                                                                   *)
(***************************************************************************)

\* the hiscores count at most this many attempts over all levels
MaxAttempts == 2
\* scores.rs:105-106: the day set_win reads from the clock
Days == {1}
\* the hiscore file at the start: none, or the one left by a first win of
\* level 1
HiscoreFiles == {<<>>} \cup {set_win(ScoresNew, 1, 2, d).file : d \in Days}
\* mainmenu.rs:138-142 and 149-153: the step of the level selector
Deltas == {1, 10}

RECURSIVE SumAttempts(_, _)
\* scores.rs:13: the attempts of levels i.. of the hiscores
SumAttempts(levels, i) ==
    IF i > Len(levels) THEN 0 ELSE levels[i].attempts + SumAttempts(levels, i + 1)
MayAttempt(sc) == SumAttempts(sc.levels, 1) < MaxAttempts

\* the game's variables the engine does not touch in this part
NoEngine ==
    /\ eng = ReplayEngineNew
    /\ files = [l \in SaveLevels |-> NoFile]
    /\ clock = 0
    /\ out = <<>>
    /\ recorded = <<>>
    /\ fileOrig = [l \in LoadLevels |-> Foreign]
    /\ src = NoSrc
    /\ last = NoCall
engineVars == <<eng, files, clock, out, recorded, fileOrig, src, last>>

\* a scene of one of these kinds is on top, and the game has not crashed; the
\* field of a scene that is popped is dropped with it
Running(kinds) == scene.kind \in kinds /\ ~scores.panicked

\* play.rs:35-45 and demo.rs:33-44: the field of a new scene
SceneField(sc, demo, lvl) == field_load(GameFieldNew(sc, demo), sc, lvl)

\* the PlayScene as it waits under a DemoScene
Suspended ==
    [field |-> field, replay |-> eng, tick |-> clock, flight |-> flight, scene |-> scene]

\* the flight as a call other than update leaves it
Grounded(fl) == IF fl.active THEN fl ELSE NoFlight
\* the field as a call other than update leaves it: the history of the last
\* update is over
Called(f) == [f EXCEPT !.ev = NoEvent]

\* the flight after update has turned field f into g: one more tick of a
\* flight in progress, which ends when update_player brings the block home;
\* home is the field as update_player left it, met counts the bricks the
\* block has met
Flown(fl, g) ==
    IF ~fl.active THEN NoFlight
    ELSE IF g.ev.what = "home"
         THEN [fl EXCEPT !.active = FALSE, !.landed = TRUE, !.n = @ + 1, !.home = g]
         ELSE [fl EXCEPT !.n = @ + 1,
                         !.met = IF g.ev.what \in {"match", "mismatch"} THEN @ + 1 ELSE @]

FieldInit ==
    /\ NoEngine
    /\ field = NoField
    /\ scores \in {scores_new(file) : file \in HiscoreFiles}
    /\ flight = NoFlight
    /\ scene = Menu
    /\ under = <<>>

\* mainmenu.rs:138-159: Left and Right on the level selector
FSelectLevel ==
    /\ Running({"menu"})
    /\ \E delta \in Deltas :
         scores' \in {inc_curr_level(scores, delta), dec_curr_level(scores, delta)}
    /\ UNCHANGED <<field, flight, scene, under>>
    /\ UNCHANGED engineVars

\* mainmenu.rs:167 and play.rs:30-46: PlayScene::new
FNewPlay ==
    /\ Running({"menu"})
    /\ field' = SceneField(scores, FALSE, scores.curr_level)
    /\ scene' = Play
    /\ flight' = NoFlight
    /\ UNCHANGED <<scores, under>>
    /\ UNCHANGED engineVars

\* mainmenu.rs:169-174 and demo.rs:28-47: DemoScene::new for the demo level,
\* once the player has closed the rules (demo.rs:83-88)
FNewDemo ==
    /\ Running({"menu"})
    /\ field' = SceneField(scores, TRUE, DEMO_LEVEL)
    /\ scene' = [Demo(DEMO_LEVEL, TRUE) EXCEPT !.rules = FALSE]
    /\ flight' = NoFlight
    /\ UNCHANGED <<scores, under>>
    /\ UNCHANGED engineVars

\* play.rs:81 and 92-108: F1 with a replay for the level; the demo goes on
\* top of the play scene.  Here the player asks for it before the first move
\* in the level.
FPushDemo ==
    /\ Running({"play"})
    /\ is_interactive(field)
    /\ field = SceneField(scores, FALSE, field.level)
    /\ scores' = set_help_used(scores, field.level)
    /\ IF scores'.panicked
       THEN UNCHANGED <<field, flight, scene, under>>
       ELSE /\ field' = SceneField(scores', TRUE,
                                   IF field.level = 0 THEN DEMO_LEVEL ELSE field.level)
            /\ scene' = Demo(field.level, TRUE)
            /\ flight' = NoFlight
            /\ under' = <<Suspended>>
    /\ UNCHANGED engineVars

\* play.rs:81 and 86-88, demo.rs:93-96
FPlayerUp ==
    /\ Running({"play", "demo"})
    /\ IF scene.kind = "play" THEN is_interactive(field) ELSE scene.playing
    /\ field' = Called(player_up(field))
    /\ flight' = Grounded(flight)
    /\ UNCHANGED <<scores, scene, under>>
    /\ UNCHANGED engineVars

\* play.rs:81 and 89-91, demo.rs:97-100
FPlayerDown ==
    /\ Running({"play", "demo"})
    /\ IF scene.kind = "play" THEN is_interactive(field) ELSE scene.playing
    /\ field' = Called(player_down(field))
    /\ flight' = Grounded(flight)
    /\ UNCHANGED <<scores, scene, under>>
    /\ UNCHANGED engineVars

\* play.rs:81-85, demo.rs:101-104
FThrow ==
    /\ Running({"play", "demo"})
    /\ IF scene.kind = "play" THEN is_interactive(field) ELSE scene.playing
    /\ field' = Called(throw_brick(field))
    /\ flight' = IF can_throw(field)
                 THEN [NoFlight EXCEPT !.active = TRUE, !.from = field.player.y]
                 ELSE Grounded(flight)
    /\ UNCHANGED <<scores, scene, under>>
    /\ UNCHANGED engineVars

\* demo.rs:108-111: the replay has ended
FSetWinner ==
    /\ Running({"demo"})
    /\ field' = Called([field EXCEPT !.state = "Winner"])
    /\ scene' = [scene EXCEPT !.playing = FALSE]
    /\ flight' = Grounded(flight)
    /\ UNCHANGED <<scores, under>>
    /\ UNCHANGED engineVars

\* play.rs:119 and 124, demo.rs:126: GameField::update; a demo whose replay
\* has ended has set the state to Winner before the call, and drops the
\* transition
FUpdate ==
    /\ Running({"play", "demo"})
    /\ (scene.kind = "demo" /\ ~scene.playing) => field.state = "Winner"
    /\ \E key \in {FALSE} \cup {k \in {TRUE} : MayAttempt(scores)}, d \in Days :
         LET r == update(field, scores, key, d)
             popped == r.transition = "Pop" /\ scene.kind = "play"
         IN /\ field' = IF popped THEN NoField ELSE r.field
            /\ scores' = r.scores
            /\ flight' = IF popped THEN NoFlight
                         ELSE Flown(flight, update_field(field))
            /\ scene' = IF popped THEN Menu ELSE scene
    /\ UNCHANGED under
    /\ UNCHANGED engineVars

\* play.rs:67-79: Escape in the play scene
FEscape ==
    /\ Running({"play"})
    /\ \E d \in Days :
         scores' = IF field.state \in {"Completed", "Winner"}
                   THEN set_win(scores, field.level, field.score, d)
                   ELSE IF field.state = "Looser"
                           \/ (field.score >= MIN_THROWS /\ field.state = "Unfinished")
                   THEN set_fail(scores, field.level)
                   ELSE scores
    /\ scores' # scores => MayAttempt(scores)
    /\ scene' = Menu
    /\ field' = NoField
    /\ flight' = NoFlight
    /\ UNCHANGED under
    /\ UNCHANGED engineVars

\* demo.rs:113-122: Escape, Space or Enter in the demo scene; the scene
\* under it is on top again
FPopDemo ==
    /\ Running({"demo"})
    /\ IF under = <<>>
       THEN /\ scene' = Menu
            /\ field' = NoField
            /\ flight' = NoFlight
       ELSE /\ scene' = under[1].scene
            /\ field' = under[1].field
            /\ flight' = under[1].flight
    /\ under' = <<>>
    /\ UNCHANGED scores
    /\ UNCHANGED engineVars

FieldNext ==
    \/ FSelectLevel
    \/ FNewPlay
    \/ FNewDemo
    \/ FPushDemo
    \/ FPlayerUp
    \/ FPlayerDown
    \/ FThrow
    \/ FSetWinner
    \/ FUpdate
    \/ FEscape
    \/ FPopDemo

SpecField == FieldInit /\ [][FieldNext]_vars

(***************************************************************************)
(* Part 5.  The play scene and the demo scene, frame by frame: each action *)
(* is one call of PlayScene::update or of DemoScene::update, with the      *)
(* replay engine, the tick counter, the replay files and the field.  The   *)
(* player records one attempt, saves it once and asks for its replay.      *)
(***************************************************************************)

\* the frames of a play scene
MaxTick == 19
\* the frames of a scene in which the field waits for a key and none is pressed
MaxQuiet == 1
\* the Up and Down keys of a recording
MaxMoves == 1

\* tetra::input::Key as the scenes read it, one key a frame
PlayKeys == Keys \cup {"NoKey", "KeyF1", "KeyF5", "KeyEscape", "KeyReturn"}
DemoKeys == {"NoKey", "KeySpace", "KeyEscape"}
\* the levels a replay can be saved for
ReplayLevels == 1..(level_count - 1)
\* the hiscore file at the start: the one a failed attempt at level 1 leaves
ScenesHiscoreFiles == {set_fail(ScoresNew, 1).file}

\* play.rs:82-91, demo.rs:92-105: the call an action stands for
Perform(f, act) ==
    CASE act = "Up" -> player_up(f)
      [] act = "Down" -> player_down(f)
      [] act = "Throw" -> throw_brick(f)

RECURSIVE PerformAll(_, _, _)
\* demo.rs:91-106: the calls of one frame of the demo
PerformAll(f, acts, i) ==
    IF i > Len(acts) THEN f ELSE PerformAll(Called(Perform(f, acts[i])), acts, i + 1)

RECURSIVE Effects(_, _, _, _)
\* history: the actions of one frame with what they did, hit when the call
\* changed the field
Effects(f, acts, i, tick) ==
    IF i > Len(acts) THEN <<>>
    ELSE <<[tick |-> tick, act |-> acts[i], hit |-> Perform(f, acts[i]) # f, lvl |-> f.level]>>
         \o Effects(Perform(f, acts[i]), acts, i + 1, tick)

\* a block of the field is in motion, or the player's block is on its way back
Busy(f) ==
    \/ is_moving(f.player)
    \/ f.going_back
    \/ \E i \in DOMAIN f.bricks : is_moving(f.bricks[i])

MovesIn(ms) == Cardinality({i \in DOMAIN ms : ms[i].act # "Throw"})

\* the player's block is where it waits for keys
AtHome(f) == f.player.scr_x = b2s(WIDTH - INFO_WIDTH - 1, 0).x

\* the field waits for a key of the player
Idle(f) == is_interactive(f) /\ ~Busy(f)

\* the keys the player of this part presses in a frame of the play scene: one
\* key a frame; Space during a flight only as long as the block has not left
\* its place; F5 once, and after it nothing but F1 or Escape
Pressed(key) ==
    /\ key \in (Keys \cup {"KeyF1"}) => is_interactive(field)
    /\ key = "KeySpace" => AtHome(field)
    /\ key \in {"KeyUp", "KeyDown"} => MovesIn(eng.replay.moves) < MaxMoves
    /\ key = "NoKey" => (Idle(field) => scene.quiet < MaxQuiet)
    /\ key = "KeyReturn" => (field.state # "Unfinished" /\ MayAttempt(scores))
    /\ key = "KeyF5" => eng.replay.moves # <<>>
    /\ key = "KeyF1" => files[field.level] # NoFile
    /\ files[field.level] # NoFile => key \in {"NoKey", "KeyF1", "KeyEscape"}

ScenesInit ==
    /\ scores \in {scores_new(file) : file \in ScenesHiscoreFiles}
    /\ field = SceneField(scores, FALSE, scores.curr_level)
    /\ eng = rec_start(ReplayEngineNew)
    /\ clock = 0
    /\ files = [l \in ReplayLevels |-> NoFile]
    /\ fileOrig = [l \in ReplayLevels |-> Foreign]
    /\ recorded = <<>>
    /\ out = <<>>
    /\ src = NoSrc
    /\ last = NoCall
    /\ flight = NoFlight
    /\ scene = Play
    /\ under = <<>>

\* play.rs:67-79
PlayEscape(d) ==
    /\ scores' = IF field.state \in {"Completed", "Winner"}
                 THEN set_win(scores, field.level, field.score, d)
                 ELSE IF field.state = "Looser"
                         \/ (field.score >= MIN_THROWS /\ field.state = "Unfinished")
                 THEN set_fail(scores, field.level)
                 ELSE scores
    /\ scores' # scores => MayAttempt(scores)
    /\ scene' = Menu
    /\ field' = NoField
    /\ flight' = NoFlight
    /\ UNCHANGED <<eng, files, clock, out, recorded, fileOrig, src, last, under>>

\* play.rs:80-85
PlayThrow ==
    /\ clock' = clock + 1
    /\ eng' = add_action(eng, clock + 1, "KeySpace")
    /\ field' = Called(throw_brick(field))
    /\ flight' = IF can_throw(field)
                 THEN [NoFlight EXCEPT !.active = TRUE, !.from = field.player.y]
                 ELSE Grounded(flight)
    /\ recorded' = recorded \o Effects(field, <<"Throw">>, 1, clock + 1)
    /\ scene' = Acted(scene, 1)
    /\ UNCHANGED <<files, out, fileOrig, src, last, scores, under>>

\* play.rs:80-81 and 92-108, demo.rs:28-47: F1 with a replay for the level
PlayHelp ==
    /\ scores' = set_help_used(scores, field.level)
    /\ IF scores'.panicked
       THEN UNCHANGED <<eng, clock, out, src, field, flight, scene, under>>
       ELSE LET lvl == IF field.level = 0 THEN DEMO_LEVEL ELSE field.level IN
            /\ under' = <<[Suspended EXCEPT !.tick = clock + 1]>>
            /\ field' = SceneField(scores', TRUE, lvl)
            /\ eng' = replay_start(load(ReplayEngineNew, files, lvl))
            /\ clock' = 0
            /\ scene' = Demo(lvl, is_playing(eng'))
            /\ flight' = NoFlight
            /\ out' = <<>>
            /\ src' = [lvl |-> lvl, fresh |-> TRUE, orig |-> fileOrig[lvl],
                       saved |-> Deserialize(ReplayBytes(files, lvl)).moves]
    /\ UNCHANGED <<files, recorded, fileOrig, last>>

\* play.rs:80-81, 86-91 and 112-124: the frames that reach field.update
PlayOn(key, d) ==
    LET acts == IF is_interactive(field) /\ key \in {"KeyUp", "KeyDown"}
                THEN <<key_to_action(key)>> ELSE <<>>
        logged == IF acts # <<>> THEN add_action(eng, clock + 1, key) ELSE eng
        saved == IF key = "KeyF5" THEN save_engine(logged) ELSE logged
        moved == PerformAll(field, acts, 1)
        r == update(moved, scores, key = "KeyReturn", d)
        popped == r.transition = "Pop"
    IN /\ files' = IF key = "KeyF5" THEN save_files(logged, files, field.level) ELSE files
       /\ fileOrig' = IF key = "KeyF5" /\ logged.replay.moves # <<>>
                      THEN [fileOrig EXCEPT ![field.level] = recorded] ELSE fileOrig
       /\ eng' = IF r.field.state = "Looser" THEN rec_start(saved) ELSE saved
       /\ clock' = IF r.field.state = "Looser" THEN 0 ELSE clock + 1
       /\ recorded' = IF r.field.state = "Looser" THEN <<>>
                      ELSE recorded \o Effects(field, acts, 1, clock + 1)
       /\ field' = IF popped THEN NoField ELSE r.field
       /\ scores' = r.scores
       /\ flight' = IF popped THEN NoFlight
                    ELSE Flown(IF acts # <<>> THEN Grounded(flight) ELSE flight,
                               update_field(moved))
       /\ scene' = LET waited == IF key = "NoKey" /\ Idle(field)
                                 THEN [scene EXCEPT !.quiet = @ + 1] ELSE scene
                   IN IF popped THEN Menu
                      ELSE IF r.field.state = "Looser"
                      THEN [waited EXCEPT !.upd = 0, !.gaps = <<>>]
                      ELSE Stepped(Acted(waited, Len(acts)))
       /\ UNCHANGED <<out, src, last, under>>

\* play.rs:66-125: PlayScene::update
SPlayUpdate ==
    /\ Running({"play"})
    /\ clock < MaxTick
    /\ \E key \in PlayKeys, d \in Days :
         /\ Pressed(key)
         /\ IF key = "KeyEscape" THEN PlayEscape(d)
            ELSE IF is_interactive(field) /\ key = "KeySpace" THEN PlayThrow
            ELSE IF /\ is_interactive(field)
                    /\ key = "KeyF1"
                    /\ is_loaded(load(ReplayEngineNew, files, field.level))
            THEN PlayHelp
            ELSE PlayOn(key, d)

\* demo.rs:113-122: the demo is popped, the scene under it is on top again
DemoPop ==
    /\ IF under = <<>>
       THEN /\ scene' = Menu
            /\ field' = NoField
            /\ flight' = NoFlight
            /\ UNCHANGED <<eng, clock>>
       ELSE /\ scene' = under[1].scene
            /\ field' = under[1].field
            /\ flight' = under[1].flight
            /\ eng' = under[1].replay
            /\ clock' = under[1].tick
    /\ under' = <<>>
    /\ out' = <<>>
    /\ src' = NoSrc
    /\ UNCHANGED <<files, recorded, fileOrig, last, scores>>

\* demo.rs:90-111 and 124-127: a frame of the replay.  The spectator leaves
\* the demo on when something is going on in it.
DemoOn(d) ==
    LET t == clock + 1
        dr == Drain(eng, t, <<>>)
        moved == PerformAll(field, dr.acts, 1)
        judged == IF ~is_playing(dr.eng) THEN [moved EXCEPT !.state = "Winner"] ELSE moved
    IN /\ is_playing(eng) \/ Busy(field)
       /\ clock' = t
       /\ eng' = dr.eng
       /\ out' = out \o Effects(field, dr.acts, 1, t)
       /\ field' = update(judged, scores, FALSE, d).field
       /\ flight' = NoFlight
       /\ scene' = Stepped(Acted([scene EXCEPT !.playing = is_playing(dr.eng)], Len(dr.acts)))
       /\ UNCHANGED <<files, recorded, fileOrig, src, last, scores, under>>

\* demo.rs:81-128: DemoScene::update
SDemoUpdate ==
    /\ Running({"demo"})
    /\ \E key \in DemoKeys, d \in Days :
         IF scene.rules
         THEN /\ scene' = IF key \in {"KeySpace", "KeyEscape"}
                          THEN [scene EXCEPT !.rules = FALSE] ELSE scene
              /\ UNCHANGED <<eng, files, clock, out, recorded, fileOrig, src, last,
                             field, scores, flight, under>>
         ELSE IF key \in {"KeySpace", "KeyEscape"} THEN DemoPop
         ELSE DemoOn(d)

ScenesNext ==
    \/ SPlayUpdate
    \/ SDemoUpdate

SpecScenes == ScenesInit /\ [][ScenesNext]_vars

(***************************************************************************)
(* Part 6.  Any caller of the replay engine: every method of ReplayEngine  *)
(* is called in every state of the engine, with the call, its result and   *)
(* the engine before it kept as history.  A failed assertion ends the run. *)
(***************************************************************************)

\* the ticks between two calls of add_action
CallGaps == {1, MAX_DELAY + 1}
\* the ticks next_replay_action is called with
CallTicks == {0, 1, MAX_DELAY, MAX_DELAY + 1}
\* the keys add_action is called with
CallKeys == {"KeyUp", "KeySpace"}
\* the replay directory at the start
CallFiles == {NoFile, OtherVersionFile(REPLAY_VERSION + 1), RawFile}

\* replay.rs:153: assert!(self.state == State::Idle)
replay_start_asserts(e) == e.state = "Idle"
\* replay.rs:193: assert!(self.state == State::Recording)
add_action_asserts(e) == e.state = "Recording"

\* history: a call of a method of the engine; before is the engine and had
\* the stored record of the level before the call, ret what the call returned,
\* "panic" for a failed assertion
Call(op, lvl, tick, ret, before, had) ==
    [op |-> op, lvl |-> lvl, tick |-> tick, ret |-> ret, before |-> before, had |-> had]

\* the variables the caller of this part leaves alone
CallsIdle ==
    /\ out = <<>>
    /\ recorded = <<>>
    /\ src = NoSrc
    /\ fileOrig = [l \in LoadLevels |-> Foreign]
    /\ NoGame

CallsInit ==
    /\ eng = ReplayEngineNew
    /\ files \in [SaveLevels -> CallFiles]
    /\ clock = 0
    /\ last = Call("new", DEMO_LEVEL, 0, "None", ReplayEngineNew, NoFile)
    /\ CallsIdle

\* the program runs: no assertion has failed
Alive == last.ret # "panic"

\* replay.rs:76-78
CNew ==
    /\ Alive
    /\ eng' = ReplayEngineNew
    /\ clock' = 0
    /\ last' = Call("new", DEMO_LEVEL, 0, "None", eng, NoFile)
    /\ UNCHANGED <<files, out, recorded, fileOrig, src>>
    /\ UNCHANGED gameVars

\* replay.rs:84-89
CRecStart ==
    /\ Alive
    /\ eng' = rec_start(eng)
    /\ clock' = 0
    /\ last' = Call("rec_start", DEMO_LEVEL, 0, "None", eng, NoFile)
    /\ UNCHANGED <<files, out, recorded, fileOrig, src>>
    /\ UNCHANGED gameVars

\* the tick of the caller's clock, g ticks after the last action of the log
TickAfter(e, g) ==
    (IF e.replay.moves = <<>> THEN 0 ELSE e.replay.moves[Len(e.replay.moves)].tick) + g

\* replay.rs:192-196; the caller's clock is monotonic: the ticks of a log
\* never decrease
CAddAction ==
    /\ Alive
    /\ Len(eng.replay.moves) < MaxLen
    /\ \E k \in CallKeys, g \in CallGaps :
         IF add_action_asserts(eng)
         THEN /\ eng' = add_action(eng, TickAfter(eng, g), k)
              /\ last' = Call("add_action", DEMO_LEVEL, TickAfter(eng, g), "None", eng, NoFile)
         ELSE /\ last' = Call("add_action", DEMO_LEVEL, TickAfter(eng, g), "panic", eng, NoFile)
              /\ UNCHANGED eng
    /\ UNCHANGED <<files, clock, out, recorded, fileOrig, src>>
    /\ UNCHANGED gameVars

\* replay.rs:121-146
CSave ==
    /\ Alive
    /\ \E l \in SaveLevels :
         /\ eng' = save_engine(eng)
         /\ files' = save_files(eng, files, l)
         /\ last' = Call("save", l, 0, "None", eng, files[l])
    /\ UNCHANGED <<clock, out, recorded, fileOrig, src>>
    /\ UNCHANGED gameVars

\* replay.rs:91-119
CLoad ==
    /\ Alive
    /\ \E l \in LoadLevels :
         /\ eng' = load(eng, files, l)
         /\ last' = Call("load", l, 0, "None", eng, ReplayBytes(files, l))
    /\ UNCHANGED <<files, clock, out, recorded, fileOrig, src>>
    /\ UNCHANGED gameVars

\* replay.rs:152-159
CReplayStart ==
    /\ Alive
    /\ IF replay_start_asserts(eng)
       THEN /\ eng' = replay_start(eng)
            /\ last' = Call("replay_start", DEMO_LEVEL, 0, "None", eng, NoFile)
       ELSE /\ last' = Call("replay_start", DEMO_LEVEL, 0, "panic", eng, NoFile)
            /\ UNCHANGED eng
    /\ UNCHANGED <<files, clock, out, recorded, fileOrig, src>>
    /\ UNCHANGED gameVars

\* replay.rs:174-190
CNextAction ==
    /\ Alive
    /\ \E t \in CallTicks :
         /\ eng' = next_replay_action(eng, t).eng
         /\ last' = Call("next_replay_action", DEMO_LEVEL, t,
                         next_replay_action(eng, t).ret, eng, NoFile)
    /\ UNCHANGED <<files, clock, out, recorded, fileOrig, src>>
    /\ UNCHANGED gameVars

CallsNext ==
    \/ CNew
    \/ CRecStart
    \/ CAddAction
    \/ CSave
    \/ CLoad
    \/ CReplayStart
    \/ CNextAction

SpecCalls == CallsInit /\ [][CallsNext]_vars

(***************************************************************************)
(* Part 7.  The hiscores of a player who starts without a hiscore file:    *)
(* the level selector of the main menu and the calls the play scene makes  *)
(* for the level that is played, with the calls kept as history.           *)
(***************************************************************************)

\* the calls of set_win, set_fail and set_help_used of a run
MaxCalls == 3
\* the throws a level is won with
WinThrows == {1, 2, 999, 1000}
\* the days a level is won on
WinDays == {1, 2}

\* history: a call on the hiscores; before is the Scores before the call
ScoreCall(op, lvl, throws, days, before) ==
    [op |-> op, lvl |-> lvl, throws |-> throws, days |-> days, before |-> before]

\* the variables the hiscores do not depend on
ScoresIdle ==
    /\ eng = ReplayEngineNew
    /\ files = [l \in SaveLevels |-> NoFile]
    /\ clock = 0
    /\ out = <<>>
    /\ fileOrig = [l \in LoadLevels |-> Foreign]
    /\ src = NoSrc
    /\ field = NoField
    /\ flight = NoFlight
    /\ scene = Menu
    /\ under = <<>>
scoresIdleVars == <<eng, files, clock, out, fileOrig, src, field, flight, scene, under>>

\* scores.rs:34-49: Scores::new without a hiscore file
ScoresInit ==
    /\ scores = scores_new(<<>>)
    /\ recorded = <<>>
    /\ last = ScoreCall("new", 0, 0, 0, ScoresNew)
    /\ ScoresIdle

\* mainmenu.rs:138-159: Left and Right on the level selector
SSelectLevel ==
    /\ ~scores.panicked
    /\ \E delta \in Deltas :
         scores' \in {inc_curr_level(scores, delta), dec_curr_level(scores, delta)}
    /\ last' = ScoreCall("select", scores.curr_level, 0, 0, scores)
    /\ UNCHANGED recorded
    /\ UNCHANGED scoresIdleVars

\* play.rs:69-71, field.rs:458-462 and 473-477: the level that is played is won
SSetWin ==
    /\ ~scores.panicked
    /\ Len(recorded) < MaxCalls
    /\ \E t \in WinThrows, d \in WinDays :
         /\ scores' = set_win(scores, scores.curr_level, t, d)
         /\ last' = ScoreCall("set_win", scores.curr_level, t, d, scores)
         /\ recorded' = Append(recorded, last')
    /\ UNCHANGED scoresIdleVars

\* play.rs:72-76, field.rs:465-468: the level that is played is given up or lost
SSetFail ==
    /\ ~scores.panicked
    /\ Len(recorded) < MaxCalls
    /\ scores' = set_fail(scores, scores.curr_level)
    /\ last' = ScoreCall("set_fail", scores.curr_level, 0, 0, scores)
    /\ recorded' = Append(recorded, last')
    /\ UNCHANGED scoresIdleVars

\* play.rs:92-101: F1 on the level that is played, with a replay stored for it
SSetHelpUsed ==
    /\ ~scores.panicked
    /\ Len(recorded) < MaxCalls
    /\ scores' = set_help_used(scores, scores.curr_level)
    /\ last' = ScoreCall("set_help_used", scores.curr_level, 0, 0, scores)
    /\ recorded' = Append(recorded, last')
    /\ UNCHANGED scoresIdleVars

ScoresNext ==
    \/ SSelectLevel
    \/ SSetWin
    \/ SSetFail
    \/ SSetHelpUsed

SpecScores == ScoresInit /\ [][ScoresNext]_vars

(***************************************************************************)
(* Part 8.  The loader: a level as load_from_string has read it from the   *)
(* level file is validated, as by Loader::new.  Puzzle lines end at their  *)
(* last character that is not a blank (loader.rs:159), so the lines of a   *)
(* puzzle may differ in length.                                            *)
(***************************************************************************)

\* the lines of a puzzle and the characters of a line that are enumerated
MaxSide == 3
\* the characters of a puzzle line: an empty place, a brick
LineChars == {".", "1"}

\* loader.rs:202: the puzzle lines of n characters
LinesOf(n) == {PuzzleLine(chars) : chars \in [1..n -> LineChars]}
PuzzleLines == UNION {LinesOf(n) : n \in 1..MaxSide}
\* the puzzles of up to MaxSide lines
SmallPuzzles == UNION {[1..n -> PuzzleLines] : n \in 1..MaxSide}
\* n lines of w bricks
BlockPuzzle(n, w) == [a \in 1..n |-> [i \in 1..w |-> "K1"]]
\* puzzles at the limits of the size
LargePuzzles ==
    {BlockPuzzle(n, 2) : n \in {MAX_SIZE, MAX_SIZE + 1}}
    \cup {BlockPuzzle(2, w) : w \in {MAX_SIZE, MAX_SIZE + 1}}
\* loader.rs:197: the corner patterns, a u8 for every line
CornerPatterns ==
    {<<>>, <<3>>, <<3, 2>>, <<0, 0>>,
     [y \in 1..(MAX_SIZE - 1) |-> MAX_SIZE], [y \in 1..MAX_SIZE |-> 1],
     <<MAX_SIZE + 1, 2>>, <<2, 255>>}
\* loader.rs:25-29: struct Level
LevelOf(corner, puzzle) == [corner |-> corner, puzzle |-> puzzle, first |-> DEFAULT_KIND]
LevelInputs ==
    {LevelOf(c, p) : c \in CornerPatterns, p \in LargePuzzles \cup {BlockPuzzle(2, 2)}}
    \cup {LevelOf(<<>>, p) : p \in SmallPuzzles}

\* the variables the loader does not depend on
LoaderIdle ==
    /\ eng = ReplayEngineNew
    /\ files = [l \in SaveLevels |-> NoFile]
    /\ clock = 0
    /\ out = <<>>
    /\ recorded = <<>>
    /\ fileOrig = [l \in LoadLevels |-> Foreign]
    /\ src = NoSrc
    /\ NoGame

\* loader.rs:152-205: a level has been read
LoaderInit ==
    /\ last \in {[op |-> "read", level |-> l, ret |-> "none"] : l \in LevelInputs}
    /\ LoaderIdle

\* loader.rs:183-186 and 207-209: validate_level on the level that was read
LValidate ==
    /\ last.op = "read"
    /\ last' = [op |-> "validate_level", level |-> last.level,
                ret |-> IF validate_level(last.level) THEN "ok" ELSE "panic"]
    /\ UNCHANGED <<eng, files, clock, out, recorded, fileOrig, src>>
    /\ UNCHANGED gameVars

LoaderNext == LValidate

SpecLoader == LoaderInit /\ [][LoaderNext]_vars

(***************************************************************************)
(* Part 9.  The level selector: inc_curr_level and dec_curr_level called   *)
(* with any delta on the hiscores of a player who has opened some levels,  *)
(* in a build with overflow checks (they panic) or without (they wrap).    *)
(***************************************************************************)

\* the levels the player has opened
MaxLevel == 12
\* the calls of a run
MaxSelects == 3
\* the deltas: none, the two of the main menu, one beyond them, the largest
SelectDeltas == {0, 1, 10, 11, USIZE_MAX}
\* cargo build profiles: overflow-checks on (dev) and off (release)
Builds == {"dev", "release"}

\* the hiscore file of a player who has opened m levels
OpenedFile(m) == <<[max_level |-> m, levels |-> [i \in 1..m |-> ScoreDefault]]>>

\* history: a call of the level selector; before is the Scores before the
\* call, failed is set when an addition or subtraction of the call has
\* overflowed
SelectCall(build, op, delta, before, failed) ==
    [build |-> build, op |-> op, delta |-> delta, before |-> before, failed |-> failed]

\* scores.rs:34-71: Scores::new with the hiscore file
SelectInit ==
    /\ \E m \in 1..MaxLevel, b \in Builds :
         /\ scores = scores_new(OpenedFile(m))
         /\ last = SelectCall(b, "new", 0, scores, FALSE)
    /\ recorded = <<>>
    /\ ScoresIdle

\* the Scores a call leaves: the process is gone when an operation overflows
\* in a build with overflow checks
Selected(sc, failed) ==
    IF failed /\ last.build = "dev" THEN [scores EXCEPT !.panicked = TRUE] ELSE sc

\* scores.rs:164-171
SelInc ==
    /\ ~scores.panicked
    /\ Len(recorded) < MaxSelects
    /\ \E delta \in SelectDeltas :
         /\ scores' = Selected(inc_curr_level(scores, delta), inc_overflows(scores, delta))
         /\ last' = SelectCall(last.build, "inc", delta, scores, inc_overflows(scores, delta))
         /\ recorded' = Append(recorded, last')
    /\ UNCHANGED scoresIdleVars

\* scores.rs:174-181
SelDec ==
    /\ ~scores.panicked
    /\ Len(recorded) < MaxSelects
    /\ \E delta \in SelectDeltas :
         /\ scores' = Selected(dec_curr_level(scores, delta), dec_underflows(scores, delta))
         /\ last' = SelectCall(last.build, "dec", delta, scores, dec_underflows(scores, delta))
         /\ recorded' = Append(recorded, last')
    /\ UNCHANGED scoresIdleVars

SelectNext ==
    \/ SelInc
    \/ SelDec

SpecSelect == SelectInit /\ [][SelectNext]_vars

(***************************************************************************)
(* Part 10.  A session of the play scene: the frames of PlayScene::update  *)
(* and of the DemoScene it pushes, as in Part 5, for a player who goes on  *)
(* after a save, over the restart of a lost level and on to the next       *)
(* level, and who once waits longer than MAX_DELAY for the next key.       *)
(***************************************************************************)

\* the frames in a row the player lets pass without a key, once a scene
MaxWait == 181
\* the actions of the recorder's log
MaxLog == 3

\* the player is in the middle of the wait
Waiting == 0 < scene.quiet /\ scene.quiet < MaxWait

\* the keys the player of this part presses in a frame of the play scene: one
\* key a frame; Up, Down, F1 and F5 when the field is at rest, Space during a
\* flight only as long as the block has not left its place; F5 when it stores
\* something new, F1 once a level and for the log just saved; Return or
\* Escape when the game is over;
\* a wait, once begun, lasts MaxWait frames
Typed(key) ==
    /\ key \in Keys => (is_interactive(field) /\ Len(eng.replay.moves) < MaxLog)
    /\ key = "KeySpace" => AtHome(field)
    /\ key \in {"KeyUp", "KeyDown", "KeyF1", "KeyF5"} => Idle(field)
    /\ key = "NoKey" => /\ Idle(field) => scene.quiet < MaxWait
                        /\ (field.state # "Unfinished" /\ ~field.going_back) => Busy(field)
    /\ key = "KeyReturn" =>
           (field.state # "Unfinished" /\ ~field.going_back /\ MayAttempt(scores))
    /\ key = "KeyF5" =>
           /\ eng.replay.moves # <<>>
           /\ files[field.level] # Serialize(save_engine(eng).replay)
    /\ key = "KeyF1" =>
           /\ files[field.level] = Serialize(eng.replay)
           /\ ~level_info(scores, field.level).help_used
    /\ Waiting => key = "NoKey"

SessionInit ==
    /\ scores \in {scores_new(file) : file \in HiscoreFiles \cup ScenesHiscoreFiles}
    /\ field = SceneField(scores, FALSE, scores.curr_level)
    /\ eng = rec_start(ReplayEngineNew)
    /\ clock = 0
    /\ files = [l \in ReplayLevels |-> NoFile]
    /\ fileOrig = [l \in ReplayLevels |-> Foreign]
    /\ recorded = <<>>
    /\ out = <<>>
    /\ src = NoSrc
    /\ last = NoCall
    /\ flight = NoFlight
    /\ scene = Play
    /\ under = <<>>

\* play.rs:66-125: PlayScene::update
SessionPlayUpdate ==
    /\ Running({"play"})
    /\ \E key \in PlayKeys, d \in Days :
         /\ Typed(key)
         /\ IF key = "KeyEscape" THEN PlayEscape(d)
            ELSE IF is_interactive(field) /\ key = "KeySpace" THEN PlayThrow
            ELSE IF /\ is_interactive(field)
                    /\ key = "KeyF1"
                    /\ is_loaded(load(ReplayEngineNew, files, field.level))
            THEN PlayHelp
            ELSE PlayOn(key, d)

\* demo.rs:81-128: DemoScene::update
SessionDemoUpdate == SDemoUpdate

SessionNext ==
    \/ SessionPlayUpdate
    \/ SessionDemoUpdate

SpecSession == SessionInit /\ [][SessionNext]_vars

(***************************************************************************)
(* Properties of the replay engine                                         *)
(***************************************************************************)

ActsOf(ms) == [i \in 1..Len(ms) |-> ms[i].act]
Min(a, b) == IF a < b THEN a ELSE b
\* the first of the ticks 1, 2, 3, ... that is >= x
FirstTickFrom(x) == IF x < 1 THEN 1 ELSE x

\* the engine plays a log that this caller recorded and saved, loaded into a
\* fresh engine
RoundTripCase == eng.state = "Replaying" /\ src.fresh /\ src.orig # Foreign

\* C1: a recorded, saved and freshly loaded log is played back complete and in
\* order: what has been delivered so far are the first recorded actions, each at
\* the first tick >= its saved tick minus the load shift, and no action whose
\* tick has come is still waiting.
C1_ReplayRoundTrip ==
    RoundTripCase =>
        /\ ActsOf(eng.replay.moves) = ActsOf(src.orig)
        /\ Len(out) = eng.idx
        /\ \A i \in 1..Len(out) :
             /\ out[i].act = src.orig[i].act
             /\ out[i].tick = FirstTickFrom(src.saved[i].tick - eng.shift)
        /\ \A i \in 1..Len(src.saved) :
             (clock >= 1 /\ src.saved[i].tick - eng.shift <= clock) => i <= Len(out)

\* the whole of a recorded log with a clipped pause has been played back
C1_Witness ==
    /\ RoundTripCase
    /\ Len(src.orig) >= 2
    /\ Len(out) = Len(src.orig)
    /\ out[1].act # out[2].act
    /\ src.orig[2].tick - src.orig[1].tick > MAX_DELAY

\* C2: save of a non-empty log stores a log whose first tick and whose gaps are
\* at most MAX_DELAY, with non-decreasing ticks and the actions as they were.
C2_GapNormalization ==
    [][(last'.op = "save" /\ eng.replay.moves # <<>>) =>
        LET st == Deserialize(files'[last'.lvl]).moves IN
            /\ st = eng'.replay.moves
            /\ st[1].tick <= MAX_DELAY
            /\ \A i \in 1..(Len(st) - 1) :
                 /\ st[i + 1].tick - st[i].tick <= MAX_DELAY
                 /\ st[i].tick <= st[i + 1].tick
            /\ Len(st) = Len(eng.replay.moves)
            /\ ActsOf(st) = ActsOf(eng.replay.moves)
      ]_engVars

\* a log with a long lead-in and a long pause has just been saved
C2_Witness ==
    /\ last.op = "save"
    /\ Len(recorded) >= 2
    /\ recorded[1].tick > MAX_DELAY
    /\ recorded[2].tick - recorded[1].tick > MAX_DELAY
    /\ files[last.lvl] = Serialize(eng.replay)
    /\ Len(eng.replay.moves) = Len(recorded)

\* load finds no file, or one of another format version
LoadRejected(fs, lvl) ==
    \/ ReplayBytes(fs, lvl) = NoFile
    \/ Deserialize(ReplayBytes(fs, lvl)).version # REPLAY_VERSION

\* C9: a load that finds no replay, or one of another version, leaves the log,
\* the version, the state, the cursor and the shift of the engine as they were.
C9_RejectedLoadNoChange ==
    [][(last'.op = "load" /\ LoadRejected(files, last'.lvl)) => eng' = eng]_engVars

\* a file of another version was refused by an engine in the middle of playback
C9_Witness ==
    /\ last.op = "load"
    /\ ReplayBytes(files, last.lvl) # NoFile
    /\ LoadRejected(files, last.lvl)
    /\ eng.state = "Replaying"
    /\ eng.idx > 0
    /\ eng.shift > 0

\* the tick from which next_replay_action delivers move i (1-based) once the
\* cursor has reached it: it delivers at that tick and not at the tick before
Due(e, i) ==
    CHOOSE t \in 0..e.replay.moves[i].tick :
        /\ next_replay_action([e EXCEPT !.idx = i - 1], t).ret # "None"
        /\ t > 0 => next_replay_action([e EXCEPT !.idx = i - 1], t - 1).ret = "None"

\* the first tick of the loaded log as it was recorded
FirstRecorded == IF src.orig = Foreign THEN src.saved[1].tick ELSE src.orig[1].tick

\* C10: after load of a non-empty log into a fresh engine and replay_start,
\* the first action is delivered at every tick >= min(first recorded tick,
\* MAX_DELAY), and consecutive actions fall due, and are delivered, as far
\* apart as their stored ticks are.
C10_BoundedLeadIn ==
    (eng.state = "Replaying" /\ src.fresh) =>
        /\ eng.idx = 0 =>
             \A t \in 0..(MAX_DELAY + ExtraGap) :
                 t >= Min(FirstRecorded, MAX_DELAY) =>
                     next_replay_action(eng, t).ret = eng.replay.moves[1].act
        /\ \A i \in 1..(Len(eng.replay.moves) - 1) :
             /\ Due(eng, i + 1) - Due(eng, i)
                  = eng.replay.moves[i + 1].tick - eng.replay.moves[i].tick
             /\ (i + 1 <= Len(out) /\ Due(eng, i) >= 1) =>
                  out[i + 1].tick - out[i].tick
                      = eng.replay.moves[i + 1].tick - eng.replay.moves[i].tick

\* a log that was never normalized is played back with a shift, and both of its
\* actions have been delivered
C10_Witness ==
    /\ eng.state = "Replaying"
    /\ src.fresh
    /\ eng.shift > 0
    /\ Len(out) >= 2
    /\ out[1].tick = MAX_DELAY


(***************************************************************************)
(* Properties of the game field                                            *)
(***************************************************************************)

\* the rows the player's block can stand in
Rows == 1..(HEIGHT - 2)

\* the right side of the throw rule: the block is at rest, the level is
\* unfinished, and the target of the block's row has a kind, which is the
\* block's kind unless the block is a joker
ThrowLegal(f) ==
    /\ ~is_moving(f.player)
    /\ f.state = "Unfinished"
    /\ LET k == target(f, f.player.y).kind IN
         k # "None" /\ (k = f.player.kind \/ f.player.kind = "Joker")

\* C4: in every reachable state can_throw is true exactly when the player's
\* block is at rest, the state is Unfinished and target of the block's row, on
\* the bricks as they are, has a kind that the block matches; the cached
\* first_brick is the kind of that target whenever the block is at rest.
C4_ThrowLegality ==
    /\ can_throw(field) <=> ThrowLegal(field)
    /\ ~is_moving(field.player) => field.first_brick = target(field, field.player.y).kind

\* a throw is legal from a row the block was moved to after an earlier throw
\* has changed its kind
C4_Witness ==
    /\ can_throw(field)
    /\ field.score >= 1
    /\ field.player.kind # "Joker"
    /\ field.player.y # field.player_row
    /\ field.arrow_down

\* the table of results of calc_state
StateTable(f) ==
    IF f.bricks = <<>>
    THEN IF f.level = level_count - 1 THEN "Completed" ELSE "Winner"
    ELSE IF f.player.kind = "Joker" THEN "Unfinished"
    ELSE IF \A r \in Rows : target(f, r).kind # f.player.kind THEN "Looser"
    ELSE "Unfinished"

\* C5: calc_state gives Completed for no bricks on the last level, Winner for
\* no bricks on another level, Unfinished for bricks and a joker, Looser for
\* bricks, no joker and no row whose target has the block's kind, Unfinished
\* otherwise; on every field the game reaches, and so for the state it stores
\* when the block comes home.
C5_CalcStateTable ==
    /\ calc_state(field) = StateTable(field)
    /\ flight.landed => flight.home.state = StateTable(flight.home)

\* the block has come home to a level without bricks that is not the last one
C5_Witness ==
    /\ flight.landed
    /\ flight.home.bricks = <<>>
    /\ flight.home.state = "Winner"
    /\ field.state = "Winner"

Ids(bricks) == {bricks[i].id : i \in DOMAIN bricks}
BrickOf(bricks, id) == bricks[CHOOSE i \in DOMAIN bricks : bricks[i].id = id]

\* C6: an update in which the player's block annihilates a brick takes exactly
\* one brick out of the brick set, and calls fall exactly once on each brick of
\* that brick's column that is in a row above it and on no other brick of the
\* set, whichever branch of update_player resolves the hit.
C6_Annihilation ==
    [][field'.ev.what = "match" =>
         /\ field'.ev.branch \in {"vertical", "horizontal", "wall"}
         /\ Len(field'.bricks) = Len(field.bricks) - 1
         /\ \E r \in Ids(field.bricks) :
              /\ Ids(field'.bricks) = Ids(field.bricks) \ {r}
              /\ \A i \in DOMAIN field'.bricks :
                   LET b == field'.bricks[i] IN
                   b.nfall = IF /\ b.x = BrickOf(field.bricks, r).x
                                /\ b.y < BrickOf(field.bricks, r).y
                             THEN 1 ELSE 0]_vars

\* a brick under the block, by the wall, has been annihilated and a brick above
\* it has been told to fall
C6_Witness ==
    /\ field.ev = Event("match", "wall")
    /\ \E i \in DOMAIN field.bricks : field.bricks[i].nfall = 1
    /\ \E i \in DOMAIN field.bricks : field.bricks[i].nfall = 0

RECURSIVE MoveTo(_, _)
\* the field after the player has moved the block to row r with player_up or
\* player_down
MoveTo(f, r) ==
    IF f.player.y = r THEN f
    ELSE IF f.player.y > r THEN MoveTo(player_up(f), r)
    ELSE MoveTo(player_down(f), r)

\* C7: when the block has come home and calc_state has given Unfinished with
\* bricks left, there is a row from which throw_brick is accepted once the
\* block is moved there; when it has given Looser, throw_brick is rejected from
\* every row, and would be even if the level counted as unfinished.
C7_NoStuckPositions ==
    flight.landed =>
        /\ (flight.home.state = "Unfinished" /\ flight.home.bricks # <<>>) =>
               \E r \in Rows : throw_brick(MoveTo(flight.home, r)) # MoveTo(flight.home, r)
        /\ flight.home.state = "Looser" =>
               \A r \in Rows :
                   /\ throw_brick(MoveTo(flight.home, r)) = MoveTo(flight.home, r)
                   /\ ~can_throw([MoveTo(flight.home, r) EXCEPT !.state = "Unfinished"])

\* the block has come home with a kind no row has a target for
C7_Witness ==
    /\ flight.landed
    /\ flight.home.state = "Looser"
    /\ flight.home.bricks # <<>>
    /\ flight.home.player.kind # "Joker"

\* no flight lasts longer: to the leftmost column, down to the floor, and back
ReturnBound == 2 * (WIDTH - INFO_WIDTH - 1) + (HEIGHT - 2)

\* C8: after an accepted throw the block keeps moving, and within ReturnBound
\* calls of update it is at rest in column WIDTH - INFO_WIDTH - 1 and in the
\* row it was thrown from, with going_back false; in the field update_player
\* leaves then, the arrow and first_brick are those of the target of that row
\* and the state is the one calc_state gives.
C8_ReturnHome ==
    /\ flight.active => (flight.n < ReturnBound /\ is_moving(field.player))
    /\ flight.landed =>
         /\ flight.n <= ReturnBound
         /\ ~is_moving(flight.home.player)
         /\ ~flight.home.going_back
         /\ flight.home.player.x = WIDTH - INFO_WIDTH - 1
         /\ flight.home.player.y = flight.from
         /\ flight.home.first_brick = target(flight.home, flight.from).kind
         /\ flight.home.arrow_down = target(flight.home, flight.from).down
         /\ flight.home = recalc_arrow(flight.home)
         /\ flight.home.state = calc_state(flight.home)

\* the block is home from a flight in which it fell down a column, thrown
\* from another row than the one it starts a level in
C8_Witness ==
    /\ flight.landed
    /\ flight.from < HEIGHT - 1 - MAX_SIZE
    /\ flight.n > 2 * (WIDTH - INFO_WIDTH - 1 - MAX_SIZE)
    /\ flight.home.player.y = flight.from

(***************************************************************************)
(* Properties of the scenes                                                *)
(***************************************************************************)

RECURSIVE Settle(_, _)
\* the field once the action in progress has resolved: after the calls of
\* update, at most n, that bring every block to rest
Settle(f, n) == IF ~Busy(f) \/ n = 0 THEN f ELSE Settle(update_field(f), n - 1)

Board(f) ==
    [bricks |-> {[id |-> f.bricks[i].id, kind |-> f.bricks[i].kind,
                  x |-> f.bricks[i].x, y |-> f.bricks[i].y] : i \in DOMAIN f.bricks},
     kind |-> f.player.kind, row |-> f.player.y, throws |-> f.score]

\* the demo on top replays the log that the play scene under it recorded in
\* one attempt at the level and saved once
ReplayOfRecording ==
    /\ scene.kind = "demo"
    /\ under # <<>>
    /\ src.fresh
    /\ src.orig # Foreign
    /\ \A i \in DOMAIN src.orig : src.orig[i].lvl = src.lvl
    /\ ActsOf(under[1].replay.replay.moves) = ActsOf(src.orig)

\* C3: when the demo scene plays back, on the freshly loaded level, a log the
\* play scene recorded in one attempt at that level and saved once, every
\* action has the effect it had in the recording, accepted or ignored alike,
\* and once the last action has resolved the bricks, the kind and row of the
\* player's block and the count of throws are those of the recorded session.
C3_DeterministicReproduction ==
    ReplayOfRecording =>
        /\ Len(out) <= Len(src.orig)
        /\ \A i \in 1..Len(out) :
             /\ out[i].act = src.orig[i].act
             /\ out[i].hit = src.orig[i].hit
        /\ (Len(out) = Len(src.orig) /\ ~Busy(field)) =>
               Board(field) = Board(Settle(under[1].field, ReturnBound))

(***************************************************************************)
(* Properties of the calls of the replay engine                            *)
(***************************************************************************)

\* the action at the cursor of engine e is due at tick t
DueAt(e, t) ==
    /\ e.state = "Replaying"
    /\ e.idx < Len(e.replay.moves)
    /\ t >= e.replay.moves[e.idx + 1].tick - e.shift

\* C11: next_replay_action(currentTick) returns the action at the cursor and
\* advances the cursor by exactly one if and only if the engine is Replaying,
\* the cursor is before the end of the log and currentTick is at least the
\* tick of the move at the cursor less the shift; in every other case it
\* returns None and changes nothing.
C11_NextReplayAction ==
    last.op = "next_replay_action" =>
        IF DueAt(last.before, last.tick)
        THEN /\ last.ret = last.before.replay.moves[last.before.idx + 1].act
             /\ eng = [last.before EXCEPT !.idx = @ + 1]
        ELSE /\ last.ret = "None"
             /\ eng = last.before

\* a call that delivered the second move of a log with a shift, and the
\* engine that will refuse the next call
C11_Witness ==
    /\ last.op = "next_replay_action"
    /\ last.ret # "None"
    /\ last.before.idx = 1
    /\ last.before.shift > 0
    /\ ~is_playing(eng)

\* C12: replay_start called in Idle with a non-empty log moves the engine to
\* Replaying with the cursor at 0, and is_playing() is true; called in Idle
\* with an empty log it changes nothing and is_playing() is false; called in
\* any other state it fails its assertion.
C12_ReplayStart ==
    last.op = "replay_start" =>
        IF last.before.state # "Idle"
        THEN last.ret = "panic"
        ELSE /\ last.ret # "panic"
             /\ IF last.before.replay.moves # <<>>
                THEN /\ eng = [last.before EXCEPT !.state = "Replaying", !.idx = 0]
                     /\ is_playing(eng)
                ELSE /\ eng = last.before
                     /\ eng.state = "Idle"
                     /\ ~is_playing(eng)

\* a loaded log with a shift has been started
C12_Witness ==
    /\ last.op = "replay_start"
    /\ last.before.state = "Idle"
    /\ last.before.shift > 0
    /\ eng.state = "Replaying"
    /\ eng.idx = 0

\* replay_start has failed its assertion on an engine that records, and on
\* one that replays
C12_Refused ==
    /\ last.op = "replay_start"
    /\ last.ret = "panic"

\* C13 as stated: save(L) always leaves the stored record of level L equal to
\* the version and the normalized log of the engine, whatever the log is, the
\* empty log included.
C13_SaveAlwaysWrites ==
    last.op = "save" =>
        /\ eng.replay.moves = Normalize(last.before.replay.moves, 1, 0, 0)
        /\ files[last.lvl] = Serialize(eng.replay)

\* C13, amended: save(L) of a log that is not empty leaves the stored record
\* of level L equal to the version and the normalized log of the engine, in
\* the place of the record stored before; save(L) of an empty log writes
\* nothing: the stored record of level L and the engine are as before.
C13_SaveWritesLog ==
    last.op = "save" =>
        IF last.before.replay.moves # <<>>
        THEN /\ eng = [last.before EXCEPT
                          !.replay.moves = Normalize(last.before.replay.moves, 1, 0, 0)]
             /\ files[last.lvl] = Serialize(eng.replay)
             /\ Deserialize(files[last.lvl]) = eng.replay
        ELSE /\ eng = last.before
             /\ files[last.lvl] = last.had

\* a log with a long pause has been saved over another record of the level
C13_Witness ==
    /\ last.op = "save"
    /\ last.had # NoFile
    /\ last.had # files[last.lvl]
    /\ eng.replay.moves # last.before.replay.moves

\* an empty log has been saved where a record was stored
C13_EmptySaved ==
    /\ last.op = "save"
    /\ last.before.replay.moves = <<>>
    /\ last.had # NoFile

(***************************************************************************)
(* Properties of the hiscores                                              *)
(***************************************************************************)

\* the calls of set_win for level l, in order
WinsOf(l) == SelectSeq(recorded, LAMBDA c : c.op = "set_win" /\ c.lvl = l)

\* the least throw count of the wins ws, 999 at most
BestOf(ws) ==
    LET least == CHOOSE t \in {ws[i].throws : i \in DOMAIN ws} :
                     \A i \in DOMAIN ws : t <= ws[i].throws
    IN IF least > 999 THEN 999 ELSE least

\* C14: after any sequence of set_win calls on a level that started without
\* a win, wins is the number of the calls, first_win is the day of the first
\* call, and hiscore is the least throw count of the wins, 999 at most; a win
\* with more throws than the hiscore leaves the hiscore as it is.
C14_WinBookkeeping ==
    ~scores.panicked =>
        \A l \in DOMAIN Levels :
            LET ws == WinsOf(l)
                info == level_info(scores, l)
            IN /\ info.wins = Len(ws)
               /\ info.first_win = IF ws = <<>> THEN 0 ELSE ws[1].days
               /\ info.hiscore = IF ws = <<>> THEN 0 ELSE BestOf(ws)

\* level 1 has been won a second time, on another day and with more throws
\* than before
C14_Witness ==
    /\ last.op = "set_win"
    /\ Len(WinsOf(last.lvl)) = 2
    /\ last.days # WinsOf(last.lvl)[1].days
    /\ last.throws > WinsOf(last.lvl)[1].throws
    /\ ~scores.panicked

\* the entry a call on the hiscores makes of the default entry
Mutated(c) ==
    CASE c.op = "set_win" ->
           [ScoreDefault EXCEPT !.wins = 1, !.attempts = 1, !.first_win = c.days,
                                !.hiscore = IF c.throws > 999 THEN 999 ELSE c.throws]
      [] c.op = "set_fail" -> [ScoreDefault EXCEPT !.attempts = 1]
      [] c.op = "set_help_used" -> [ScoreDefault EXCEPT !.help_used = TRUE]

\* C15: each of set_win, set_fail and set_help_used, called for the level
\* that is played while the level has no entry in the hiscores, makes a
\* default entry, applies its change to it and saves the hiscores, and does
\* not fail; level_info of a level without an entry is the default entry.
C15_LazyCreation ==
    /\ \A l \in DOMAIN Levels :
         Len(scores.levels) <= l => level_info(scores, l) = ScoreDefault
    /\ (/\ last.op \in {"set_win", "set_fail", "set_help_used"}
        /\ Len(last.before.levels) <= last.lvl)
       => /\ ~scores.panicked
          /\ Len(scores.levels) > last.lvl
          /\ scores.levels[last.lvl + 1] = Mutated(last)
          /\ scores.file = <<[max_level |-> scores.max_level, levels |-> scores.levels]>>

(***************************************************************************)
(* Properties of the loader                                                *)
(***************************************************************************)

\* place i of line a of a puzzle holds a brick
Filled(puzzle, a, i) == i <= Len(puzzle[a]) /\ puzzle[a][i] # "None"

\* a column of the puzzle has an empty place below a brick, a place past the
\* end of a line being empty
HasGap(puzzle) ==
    \E a, b \in DOMAIN puzzle : \E i \in 1..Len(puzzle[a]) :
        a < b /\ Filled(puzzle, a, i) /\ ~Filled(puzzle, b, i)

\* the width of a puzzle: the length of its longest line
Columns(puzzle) ==
    CHOOSE w \in {Len(puzzle[a]) : a \in DOMAIN puzzle} :
        \A a \in DOMAIN puzzle : Len(puzzle[a]) <= w

\* the levels the validation has to reject
Invalid(level) ==
    \/ HasGap(level.puzzle)
    \/ Len(level.corner) = 1
    \/ Len(level.corner) > 6
    \/ \E y \in DOMAIN level.corner : level.corner[y] > 7
    \/ Len(level.puzzle) < 2
    \/ Len(level.puzzle) > 7
    \/ Columns(level.puzzle) < 2
    \/ Columns(level.puzzle) > 7

\* C16: validate_level fails on every level with an empty place below a
\* brick in a column, also where the place is empty because its line is
\* shorter than others; on every level with a corner pattern of 1 line or of
\* more than 6 lines, or with a corner line longer than 7; and on every level
\* with a puzzle of fewer than 2 or more than 7 lines or columns.
C16_ValidationRejects ==
    (last.op = "validate_level" /\ Invalid(last.level)) => last.ret = "panic"

\* a level has been rejected whose only fault is a short line below a brick
C16_Witness ==
    /\ last.op = "validate_level"
    /\ last.ret = "panic"
    /\ last.level.corner = <<>>
    /\ Len(last.level.puzzle) = 2
    /\ Len(last.level.puzzle[1]) = 2
    /\ Len(last.level.puzzle[2]) = 1
    /\ \A i \in 1..2 : Filled(last.level.puzzle, 1, i)
    /\ Filled(last.level.puzzle, 2, 1)

\* C17: validate_level returns on every level with a puzzle of 2 to 7 lines
\* and a longest line of 2 to 7 places, with no empty place below a brick in
\* any column, and with no corner pattern or one of 2 to 6 lines of at most
\* 7 each; among them the levels whose lines differ in length, a shorter line
\* lying above a longer one.
C17_ValidationAccepts ==
    (last.op = "validate_level" /\ ~Invalid(last.level)) => last.ret = "ok"


(***************************************************************************)
(* Properties of the blocks at rest                                        *)
(***************************************************************************)
\* the block is on the place of its whole-block coordinates
OnGrid(b) == b.scr_x = b2s(b.x, b.y).x /\ b.scr_y = b2s(b.x, b.y).y

\* the blocks of the field: the bricks of the level and the player's block
BlocksOf(f) == {f.bricks[i] : i \in DOMAIN f.bricks} \cup {f.player}

\* C18: in every state with a field, each brick of the level and the player's
\* block, when it is not moving, has its screen position exactly at its
\* whole-block coordinates times BRICK_SIZE: after load, player_up,
\* player_down, stop, and after every motion that update completes.
C18_RestOnGrid ==
    \A b \in BlocksOf(field) : ~is_moving(b) => OnGrid(b)


(***************************************************************************)
(* Properties of the level selector                                        *)
(***************************************************************************)
\* the level the claim gives for a call: min(max_level, curr_level + delta)
\* and max(1, curr_level - delta) of the numbers, not of their usize
ClampedLevel(c) ==
    LET curr == c.before.curr_level
        max_level == c.before.max_level
    IN IF c.op = "inc"
       THEN IF ~AddOverflows(curr, c.delta) /\ LtU(curr + c.delta, max_level)
            THEN curr + c.delta ELSE max_level
       ELSE IF LtU(c.delta, curr) THEN curr - c.delta ELSE 1

\* C19: a call of inc_curr_level or dec_curr_level with curr_level >= 1, for
\* any delta, leaves curr_level at min(max_level, curr_level + delta), or at
\* max(1, curr_level - delta); no subtraction of the call underflows, and
\* curr_level is not below 1 after it.
C19_Clamping ==
    (last.op \in {"inc", "dec"} /\ last.before.curr_level # 0) =>
        /\ ~scores.panicked
        /\ scores.curr_level = ClampedLevel(last)
        /\ last.op = "dec" => ~last.failed
        /\ scores.curr_level # 0


\* C19 within the range of usize: a call of dec_curr_level with any delta, or
\* of inc_curr_level with a delta for which curr_level + delta is at most
\* usize::MAX, on curr_level >= 1, leaves curr_level at max(1, curr_level -
\* delta), or at min(max_level, curr_level + delta); no operation of the call
\* overflows, and curr_level is not below 1 after it.
C19_ClampingInRange ==
    (/\ last.op \in {"inc", "dec"}
     /\ last.before.curr_level # 0
     /\ last.op = "inc" => ~AddOverflows(last.before.curr_level, last.delta)) =>
        /\ ~scores.panicked
        /\ scores.curr_level = ClampedLevel(last)
        /\ ~last.failed
        /\ scores.curr_level # 0

\* dec_curr_level has clamped at level 1 for a delta above curr_level - 1,
\* after a call of inc_curr_level that has stayed below max_level
C19_Witness ==
    /\ last.op = "dec"
    /\ last.delta > last.before.curr_level - 1
    /\ last.before.curr_level > 1
    /\ scores.curr_level = 1
    /\ \E i \in DOMAIN recorded :
         /\ recorded[i].op = "inc"
         /\ recorded[i].delta > 0
         /\ recorded[i].before.curr_level + recorded[i].delta < recorded[i].before.max_level

\* inc_curr_level with a delta of usize::MAX has left curr_level below
\* max_level, in a build without overflow checks
C19_Wrapped ==
    /\ last.op = "inc"
    /\ last.delta = USIZE_MAX
    /\ last.before.curr_level > 1
    /\ ~scores.panicked
    /\ scores.curr_level = last.before.curr_level - 1


(***************************************************************************)
(* Properties of the places of the bricks                                  *)
(***************************************************************************)
\* every brick of the level is at rest
AllAtRest(f) == \A i \in DOMAIN f.bricks : ~is_moving(f.bricks[i])

\* C20: in every state of a field loaded from a validated level, reached by
\* any calls of player_up, player_down, throw_brick and update, in which
\* every brick of the level is at rest, no two bricks are at the same place
\* and no brick is at a place of a wall.
C20_DistinctCells ==
    AllAtRest(field) =>
        /\ \A i, j \in DOMAIN field.bricks :
             (field.bricks[i].x = field.bricks[j].x /\ field.bricks[i].y = field.bricks[j].y)
                 => i = j
        /\ \A i \in DOMAIN field.bricks :
             pos2puz(field.bricks[i].x, field.bricks[i].y) \notin field.puzzle

\* the levels of the model are accepted by validate_level
C20_LevelsValidated == \A n \in DOMAIN Levels : validate_level(Levels[n])

\* the level has been validated, and its bricks are at rest after a brick has
\* fallen out of the row the level has put it in, with another brick in the
\* row above it
C20_Witness ==
    /\ C20_LevelsValidated
    /\ field.bricks # <<>>
    /\ AllAtRest(field)
    /\ \E i, j \in DOMAIN field.bricks :
         /\ i # j
         /\ field.bricks[i].y #
                BrickOf(SceneField(scores, FALSE, field.level).bricks, field.bricks[i].id).y
         /\ field.bricks[j].y = field.bricks[i].y - 1


(***************************************************************************)
(* Properties of a throw                                                   *)
(***************************************************************************)
\* the step is an accepted throw_brick
Thrown == ~flight.active /\ flight'.active

\* the columns of the bricks of a row, and of its walls among the columns
\* 0..MAX_SIZE+3
BrickColumns(f, row) == {f.bricks[i].x : i \in {j \in DOMAIN f.bricks : f.bricks[j].y = row}}
WallColumns(f, row) == {c \in 0..(MAX_SIZE + 3) : pos2puz(c, row) \in f.puzzle}
Largest(S) == CHOOSE c \in S : \A d \in S : d <= c

\* one past the rightmost brick of the row, or one past its furthest wall
StopColumn(f, row) ==
    1 + Largest(IF BrickColumns(f, row) # {} THEN BrickColumns(f, row)
                ELSE WallColumns(f, row))

\* C21: an accepted throw_brick adds exactly 1 to the throw counter, records
\* the player's row as the home row, and starts a motion to the left along
\* the row that stops one column past the rightmost brick of the row, or, in
\* a row without bricks, one column past the furthest wall of the row among
\* the columns 0..MAX_SIZE+3.
C21_ThrowInitiation ==
    [][Thrown =>
         /\ can_throw(field)
         /\ field'.score = field.score + 1
         /\ field'.player_row = field.player.y
         /\ field'.player.vel_x = 0 - Pt(BRICK_DEF_SPEED)
         /\ field'.player.vel_y = 0
         /\ is_moving(field'.player)
         /\ field'.player.limit_x = b2s(StopColumn(field, field.player.y), field.player.y).x
         /\ field'.player.limit_y = b2s(StopColumn(field, field.player.y), field.player.y).y
         /\ field'.player.scr_x = field.player.scr_x
         /\ field'.bricks = field.bricks]_vars

\* a throw has been accepted from a row with bricks, by a player who has
\* thrown before
C21_Witness ==
    /\ flight.active
    /\ flight.n = 0
    /\ field.score > 1
    /\ field.player_row = flight.from
    /\ BrickColumns(field, flight.from) # {}

\* a throw has been accepted from a row without bricks, in which the corner
\* reaches beyond column 0
C21_WallRow ==
    /\ flight.active
    /\ flight.n = 0
    /\ BrickColumns(field, flight.from) = {}
    /\ field.player.limit_x > b2s(1, flight.from).x


\* a scene is on top that passes the keys of the player, or the actions of a
\* replay, to the field
TakesInput ==
    /\ Running({"play", "demo"})
    /\ IF scene.kind = "play" THEN is_interactive(field) ELSE scene.playing

\* C22: when can_throw is false, throw_brick leaves the throw counter, the
\* player's block, the home row, the bricks and the game state as they are;
\* while the player's block is moving, thrown or on its way back, player_up
\* and player_down leave the player's row, its position and the aiming
\* lookahead as they are.
C22_RejectedInput ==
    /\ ~can_throw(field) =>
         /\ throw_brick(field).score = field.score
         /\ throw_brick(field).player = field.player
         /\ throw_brick(field).player_row = field.player_row
         /\ throw_brick(field).bricks = field.bricks
         /\ throw_brick(field).state = field.state
    /\ is_moving(field.player) =>
         \A g \in {player_up(field), player_down(field)} :
             /\ g.player = field.player
             /\ g.arrow_pos = field.arrow_pos
             /\ g.arrow_down = field.arrow_down
             /\ g.first_brick = field.first_brick

\* a demo is given actions while the block it has thrown is on its way back,
\* in a row from which the block at rest could be moved up and down
C22_Witness ==
    /\ TakesInput
    /\ is_moving(field.player)
    /\ field.going_back
    /\ ~can_throw(field)
    /\ field.player.y \in 2..(HEIGHT - 3)

\* the player at rest in a play scene has a block that the first brick of the
\* row does not match
C22_NoMatch ==
    /\ TakesInput
    /\ scene.kind = "play"
    /\ ~is_moving(field.player)
    /\ field.first_brick \notin {"None", field.player.kind}
    /\ field.score > 0


\* the place of the brick target reports for a row: below the place the arrow
\* points to, or to the left of it
AimedPlace(f, row) ==
    IF target(f, row).down
    THEN [x |-> target(f, row).x, y |-> target(f, row).y + 1]
    ELSE [x |-> target(f, row).x - 1, y |-> target(f, row).y]

\* the bricks of f that g does not have
Gone(f, g) == {f.bricks[i] : i \in {j \in DOMAIN f.bricks : f.bricks[j].id \notin Ids(g.bricks)}}

\* the update in which the thrown block meets its first brick, and the one in
\* which it comes to the end of the move throw_brick has started
FirstMeeting == flight.active /\ flight.met = 0 /\ flight'.active /\ flight'.met = 1
FirstArrival ==
    /\ flight.active /\ flight.met = 0 /\ flight'.active
    /\ field.player.vel_x < 0
    /\ field'.ev.what # "none"

\* C23: the first brick the thrown block meets is the brick target has
\* reported for the row of the throw, at the same place and of the same kind,
\* and the column in which the block stops or starts to fall is the column
\* target has reported; the first brick always matches the block.
C23_LookaheadAgrees ==
    [][/\ FirstMeeting =>
            /\ field'.ev.what = "match"
            /\ \E b \in Gone(field, field') :
                 /\ Gone(field, field') = {b}
                 /\ b.x = AimedPlace(field, flight.from).x
                 /\ b.y = AimedPlace(field, flight.from).y
                 /\ b.kind = target(field, flight.from).kind
       /\ FirstArrival =>
            /\ field'.ev.what \in {"match", "drop"}
            /\ field'.player.x = target(field, flight.from).x
            /\ field'.player.y = flight.from]_vars

\* the thrown block has fallen down a column and met its first brick there
C23_Witness ==
    /\ flight.active
    /\ flight.met = 1
    /\ field.ev = Event("match", "vertical")
    /\ field.player.y > flight.from

\* the thrown block has met its first brick at the end of its row
C23_InRow ==
    /\ flight.active
    /\ flight.met = 1
    /\ field.ev = Event("match", "horizontal")


(***************************************************************************)
(* Properties of the meetings of the thrown block with the bricks          *)
(***************************************************************************)
\* the bricks of field f at a place
BricksAt(f, x, y) == {f.bricks[i] : i \in {j \in DOMAIN f.bricks : At(x, y, f.bricks[j])}}

\* the brick matches the block of the player as it is before the update
Matches(b) == b.kind = field.player.kind \/ field.player.kind = "Joker"

\* the update ends a move down of the thrown block, above the floor row
FallEnds ==
    /\ flight.active /\ flight'.active
    /\ ~field.going_back
    /\ is_moving_down(field.player)
    /\ field'.player.y = field.player.y + 1
    /\ field'.player.y < HEIGHT - 2

\* the bricks below the block at the end of its move down
Below == BricksAt(field, field'.player.x, field'.player.y + 1)

\* after the update the brick is gone and each brick above its place has been
\* told to fall, once
Annihilated(b) ==
    /\ b.id \notin Ids(field'.bricks)
    /\ Len(field'.bricks) = Len(field.bricks) - 1
    /\ \A i \in DOMAIN field.bricks :
         (field.bricks[i].x = b.x /\ field.bricks[i].y < b.y)
             => BrickOf(field'.bricks, field.bricks[i].id).nfall = 1

\* after the update the block is on its way home; it falls on by one block
ReturnsHome ==
    /\ field'.going_back
    /\ field'.player.vel_x = Pt(BRICK_DEF_SPEED)
    /\ field'.player.vel_y <= 0
    /\ field'.player.limit_y = b2s(0, flight.from).y
FallsOn ==
    /\ ~field'.going_back
    /\ field'.player.vel_x = 0
    /\ field'.player.vel_y = Pt(BRICK_DEF_SPEED)
    /\ field'.player.limit_y > field'.player.scr_y

\* C24: when the thrown block ends a move down above the floor row and the
\* brick below it has the block's kind, or the block is a Joker, the brick is
\* removed, the bricks above its place start to fall, and the block stops and
\* starts its way home in the same update; it does not fall on.
C24_MatchBelowReturns ==
    [][FallEnds => \A b \in Below : Matches(b) => (Annihilated(b) /\ ReturnsHome)]_vars

\* C24 as the code has it: when the thrown block ends a move down above the
\* floor row and the brick below it has the block's kind, or the block is a
\* Joker, the brick is removed, the bricks above its place start to fall, and
\* the block takes the kind of the brick and falls on by one more block in the
\* same update; it does not start its way home.
C24_MatchBelowFallsOn ==
    [][FallEnds =>
         \A b \in Below :
             Matches(b) => /\ Annihilated(b)
                           /\ FallsOn
                           /\ field'.player.kind = b.kind
                           /\ field'.ev = Event("match", "vertical")]_vars

\* the block has fallen onto a brick of its kind and falls on
C24_Witness ==
    /\ flight.active
    /\ flight.met > 0
    /\ field.ev = Event("match", "vertical")
    /\ field.player.vel_y = Pt(BRICK_DEF_SPEED)
    /\ ~field.going_back

\* C25: when the thrown block ends a move down and the brick below it has
\* another kind than the block, which is no Joker, the block takes the kind of
\* the brick and falls on by one more block; it does not start its way home
\* in that update.
C25_MismatchBelowFallsOn ==
    [][FallEnds =>
         \A b \in Below :
             ~Matches(b) => (field'.player.kind = b.kind /\ FallsOn)]_vars

\* C25 as the code has it: when the thrown block ends a move down and the
\* brick below it has another kind than the block, which is no Joker, the
\* block takes the kind of the brick, the brick is removed, and the block
\* stops and starts its way home in the same update; it does not fall on.
C25_MismatchBelowReturns ==
    [][FallEnds =>
         \A b \in Below :
             ~Matches(b) => /\ field'.player.kind = b.kind
                            /\ Annihilated(b)
                            /\ ReturnsHome
                            /\ field'.player.y = field.player.y + 1
                            /\ field'.ev = Event("mismatch", "vertical")]_vars

\* the block has fallen onto a brick of another kind and is on its way home
\* with the kind of that brick
C25_Witness ==
    /\ flight.active
    /\ field.ev = Event("mismatch", "vertical")
    /\ field.going_back
    /\ is_moving(field.player)
    /\ field.player.kind # "Joker"


\* the block as it ends its move, before the meeting is resolved
Arrived == brick_update(field.player)

\* the step is an update of the field that ends a move of the thrown block
\* along its row
FlightEnds ==
    /\ flight.active /\ flight'.active
    /\ ~field.going_back
    /\ is_moving(field.player)
    /\ ~is_moving_down(field.player)
    /\ ~is_moving(Arrived)
    /\ field' = update_field(field)

\* the place to the left of the block is a wall
WallAhead == pos2puz(Arrived.x - 1, Arrived.y) \in field.puzzle

\* the bricks to the left of the block and under it at the end of its move
Ahead == BricksAt(field, Arrived.x - 1, Arrived.y)
Under == BricksAt(field, Arrived.x, Arrived.y + 1)

\* after the update the block flies on to the place to its left
FliesOn ==
    /\ ~field'.going_back
    /\ field'.player.vel_x = 0 - Pt(BRICK_DEF_SPEED)
    /\ field'.player.vel_y = 0
    /\ field'.player.limit_x = Pt(BRICK_SIZE) * (Arrived.x - 1)
    /\ field'.player.limit_y = Pt(BRICK_SIZE) * Arrived.y

\* C26: when the thrown block ends a move along its row and the place to its
\* left holds a brick of the block's kind, or the block is a Joker, the brick
\* is removed, the bricks above it in its column start to fall, and the block
\* flies on to the left by exactly one block; when the place to its left is a
\* wall and the brick under the block matches, the brick is removed and the
\* block falls by one block, or stops and starts its way home when it is in
\* the floor row.
C26_MatchAhead ==
    [][FlightEnds =>
         /\ ~WallAhead =>
              \A b \in Ahead :
                  Matches(b) => /\ Annihilated(b)
                                /\ FliesOn
                                /\ field'.player.kind = b.kind
         /\ WallAhead =>
              \A b \in Under :
                  Matches(b) => /\ Annihilated(b)
                                /\ field'.player.kind = b.kind
                                /\ IF Arrived.y = HEIGHT - 2 THEN ReturnsHome ELSE FallsOn]_vars

\* the block has removed a matching brick of its row, above which a brick has
\* been told to fall, and flies on
C26_Witness ==
    /\ flight.active
    /\ field.ev = Event("match", "horizontal")
    /\ field.player.vel_x = 0 - Pt(BRICK_DEF_SPEED)
    /\ ~field.going_back
    /\ \E i \in DOMAIN field.bricks : field.bricks[i].nfall = 1

\* the block, by the wall, has removed the matching brick under it and falls
C26_ByTheWall ==
    /\ flight.active
    /\ field.ev = Event("match", "wall")
    /\ field.player.vel_y = Pt(BRICK_DEF_SPEED)
    /\ ~field.going_back

\* C27: when the thrown block ends a move along its row and the place to its
\* left holds a brick of another kind than the block, which is no Joker, the
\* block takes the kind of the brick and flies on by one more block in the
\* same direction; it does not start its way home.
C27_MismatchAheadFliesOn ==
    [][(FlightEnds /\ ~WallAhead) =>
         \A b \in Ahead :
             ~Matches(b) => (field'.player.kind = b.kind /\ FliesOn)]_vars

\* C27 as the code has it: when the thrown block ends a move along its row and
\* the place to its left, or the place under it when a wall is to its left,
\* holds a brick of another kind than the block, which is no Joker, the block
\* takes the kind of the brick, the brick is removed, the bricks above it
\* start to fall, and the block stops and starts its way home in the same
\* update.
C27_MismatchAheadReturns ==
    [][FlightEnds =>
         \A b \in (IF WallAhead THEN Under ELSE Ahead) :
             ~Matches(b) => /\ field'.player.kind = b.kind
                            /\ Annihilated(b)
                            /\ ReturnsHome
                            /\ field'.player.x = Arrived.x
                            /\ field'.player.y = Arrived.y]_vars

\* the block has met a brick of another kind in its row and is on its way home
\* with the kind of that brick
C27_Witness ==
    /\ flight.active
    /\ field.ev = Event("mismatch", "horizontal")
    /\ field.going_back
    /\ is_moving(field.player)
    /\ field.player.kind # "Joker"

\* the block, by the wall, has met a brick of another kind under it and is on
\* its way home
C27_ByTheWall ==
    /\ flight.active
    /\ field.ev = Event("mismatch", "wall")
    /\ field.going_back


\* the step is an update of the field that ends a move of the thrown block
MoveEnds ==
    /\ flight.active /\ flight'.active
    /\ ~field.going_back
    /\ is_moving(field.player)
    /\ ~is_moving(Arrived)
    /\ field' = update_field(field)

\* the block looks under itself at the end of a move down and by a wall, and
\* to its left otherwise
LooksDown == is_moving_down(field.player) \/ WallAhead

\* the bricks at the place the block inspects at the end of its move
Inspected == IF LooksDown THEN Under ELSE Ahead

\* C28: every brick the thrown block meets at the place it inspects at the
\* end of a move is removed from the bricks and gives its kind to the block,
\* whether it matches the block or not, so a Joker that meets a brick that is
\* no Joker is no Joker afterwards; and the block starts its way home in that
\* update exactly when the brick it met did not match it, or when it met no
\* brick, is in the floor row and has nowhere left to look (it fell there or
\* a wall is to its left).
C28_EveryMeeting ==
    [][MoveEnds =>
         /\ \A b \in Inspected :
              /\ b.id \notin Ids(field'.bricks)
              /\ field'.player.kind = b.kind
              /\ (field.player.kind = "Joker" /\ b.kind # "Joker") => field'.player.kind # "Joker"
         /\ Inspected = {} => /\ field'.player.kind = field.player.kind
                              /\ Ids(field'.bricks) = Ids(field.bricks)
         /\ field'.going_back <=>
              \/ \E b \in Inspected : ~Matches(b)
              \/ Inspected = {} /\ Arrived.y = HEIGHT - 2 /\ LooksDown]_vars

\* a Joker was thrown, took the kind of a brick it met, and has started its
\* way home from the floor row, where it met no brick
C28_Witness ==
    /\ flight.active
    /\ flight.met > 0
    /\ flight.home.player.kind = "Joker"
    /\ field.player.kind # "Joker"
    /\ field.ev.what = "floor"
    /\ field.going_back


(***************************************************************************)
(* Properties of save during a recording                                   *)
(***************************************************************************)
\* the gaps of a log: its first tick, then the ticks between its moves
GapsOf(ms) == [i \in DOMAIN ms |-> IF i = 1 THEN ms[1].tick ELSE ms[i].tick - ms[i - 1].tick]

\* the gaps of a log, each clipped to MAX_DELAY
Clipped(ms) == [i \in DOMAIN ms |-> Min(GapsOf(ms)[i], MAX_DELAY)]

\* the step is a save of a log that is not empty; the first one of the
\* recording when no log has been stored before
Saves == last'.op = "save" /\ eng.replay.moves # <<>>
FirstSave == Saves /\ \A l \in LoadLevels : fileOrig[l] = Foreign

\* C29: the first save of a recording stores a log whose first tick is the
\* smaller of the recorded first tick and MAX_DELAY and whose every gap is the
\* smaller of the recorded gap and MAX_DELAY, so that a gap of at most
\* MAX_DELAY is stored as it was recorded.
C29_ClipsNeverStretches ==
    [][FirstSave =>
         LET st == Deserialize(files'[last'.lvl]).moves IN
             /\ eng.replay.moves = recorded
             /\ Len(st) = Len(recorded)
             /\ GapsOf(st) = Clipped(recorded)
             /\ \A i \in DOMAIN recorded :
                  GapsOf(recorded)[i] <= MAX_DELAY => GapsOf(st)[i] = GapsOf(recorded)[i]]_vars

\* the first save has stored a log recorded with a long lead-in and then a
\* short gap: the lead-in is clipped and the gap is kept
C29_Witness ==
    /\ last.op = "save"
    /\ Len(recorded) >= 2
    /\ eng.replay.moves # recorded
    /\ GapsOf(recorded)[1] > MAX_DELAY
    /\ GapsOf(recorded)[2] = 1
    /\ GapsOf(Deserialize(files[last.lvl]).moves) = <<MAX_DELAY, 1>>

\* C30: whatever the interleaving of add_action, with the ticks of one
\* monotonic clock, and save on an engine, every save stores a log in which
\* the gap of every two consecutive actions is the smaller of the gap of the
\* clock between them and MAX_DELAY: a save in the middle of a recording does
\* not alter the stored timing of the actions recorded after it; and a save
\* that follows a save with no action between them stores the same log again.
C30_SaveRepeatable ==
    [][Saves =>
         LET st == Deserialize(files'[last'.lvl]).moves IN
             /\ Len(st) = Len(recorded)
             /\ \A i \in 2..Len(recorded) : GapsOf(st)[i] = Clipped(recorded)[i]
             /\ last.op = "save" => st = eng.replay.moves]_vars


(***************************************************************************)
(* Properties of the bricks of a level during play                         *)
(***************************************************************************)
\* a scene with a field is on top
InLevel == scene.kind \in {"play", "demo"}

\* the play scene is on top: its field was loaded from the level field.level
InPlay == scene.kind = "play"

\* the bricks as load has placed them in the field of the play scene
Loaded == SceneField(scores, FALSE, field.level).bricks

\* the bricks load has placed under a brick, in its column, that are gone
RemovedUnder(o) ==
    {i \in DOMAIN Loaded :
        Loaded[i].x = o.x /\ Loaded[i].y > o.y /\ Loaded[i].id \notin Ids(field.bricks)}

C36_BoardAtRest ==
    (InLevel /\ ~is_moving(field.player) /\ ~field.going_back) =>
        AllAtRest(field)

\* the block is home from a throw by which a brick has fallen two rows
C36_Witness ==
    /\ InPlay
    /\ flight.landed
    /\ ~is_moving(field.player)
    /\ ~field.going_back
    /\ \E i \in DOMAIN field.bricks :
         field.bricks[i].y = BrickOf(Loaded, field.bricks[i].id).y + 2

\* the step stays in one attempt at a level: no scene begins or ends and no
\* level is loaded
SameAttempt ==
    /\ InPlay
    /\ scene'.kind = scene.kind
    /\ under' = under
    /\ field'.level = field.level
    /\ field'.score >= field.score

\* the throws of the attempt that have met a brick
ThrowsDone(f, fl) == IF fl.active /\ fl.met = 0 THEN f.score - 1 ELSE f.score

\* the throws of an attempt against the bricks of its level
Bounded ==
    /\ InPlay =>
         /\ field.score <= Len(Loaded)
         /\ Len(field.bricks) + ThrowsDone(field, flight) <= Len(Loaded)
         /\ \A i \in DOMAIN field.bricks :
              /\ field.bricks[i].id \in Ids(Loaded)
              /\ field.bricks[i].kind = BrickOf(Loaded, field.bricks[i].id).kind
    /\ (InPlay /\ flight.landed) =>
         /\ Len(flight.home.bricks) < Len(Loaded)
         /\ flight.home.state = "Unfinished" =>
              /\ flight.home.score < Len(Loaded)
              /\ \E r \in Rows : can_throw(MoveTo(flight.home, r))
         /\ flight.home.state # "Unfinished" =>
              flight.home.state \in {"Winner", "Completed", "Looser"}

\* C37: during an attempt of the play scene no brick is added and no brick changes its kind;
\* every accepted throw removes at least one brick, so the accepted throws of
\* an attempt are never more than the bricks load has placed, and a field
\* that is unfinished when the block comes home has had fewer throws than
\* that and has a row to throw from: the attempt ends in Winner, Completed or
\* Looser after finitely many accepted throws.
C37_Progress ==
    [][/\ Bounded
       /\ SameAttempt => Ids(field'.bricks) \subseteq Ids(field.bricks)]_vars

\* the block is home from the last throw of an attempt that took as many
\* throws as the level has given kinds to match, and the level is lost
C37_Witness ==
    /\ InPlay
    /\ flight.landed
    /\ flight.home.state = "Looser"
    /\ flight.home.score >= 2
    /\ Len(flight.home.bricks) + flight.home.score <= Len(Loaded)


(***************************************************************************)
(* Properties of the hiscores over a run                                   *)
(***************************************************************************)
\* the levels of the hiscores are in order: the level played, the highest
\* level open to the player, the entries, the levels of the level file
Ordered(sc) ==
    /\ 1 <= sc.curr_level
    /\ sc.curr_level <= sc.max_level
    /\ sc.max_level <= Len(sc.levels)
    /\ sc.max_level <= level_count - 1

\* C38: from the hiscores of a first start, through every sequence of
\* set_win, set_fail, inc_curr_level and dec_curr_level as the menu and the
\* play scene call them, 1 <= curr_level <= max_level <= number of entries
\* and max_level <= level_count - 1 hold, no call lowers max_level, and no
\* call of set_win or set_fail for the level that is played reaches
\* unreachable!().
C38_StoreInvariant ==
    /\ Ordered(scores)
    /\ last.before.max_level <= scores.max_level
    /\ last.op \in {"set_win", "set_fail"} => ~scores.panicked
    /\ ~scores.panicked =>
         /\ \A t \in WinThrows, d \in WinDays : ~set_win(scores, scores.curr_level, t, d).panicked
         /\ ~set_fail(scores, scores.curr_level).panicked

\* the first level has been won, the player has gone back to it in the menu
\* and has failed it: max_level stays at the second level
C38_Witness ==
    /\ last.op = "set_fail"
    /\ last.lvl = 1
    /\ scores.curr_level = 1
    /\ scores.max_level = 2
    /\ Len(scores.levels) = 3
    /\ ~scores.panicked


\* the entries of every level but lvl are the same in two hiscores
OthersKept(sc, sc2, lvl) ==
    \A n \in (DOMAIN Levels) \ {lvl} : level_info(sc2, n) = level_info(sc, n)

\* hiscores sc2 are sc with one win of level lvl in so many throws counted
WonOnce(sc, sc2, lvl, throws) ==
    LET old == level_info(sc, lvl)
        new == level_info(sc2, lvl)
    IN /\ ~sc2.panicked
       /\ new.attempts = old.attempts + 1
       /\ new.wins = old.wins + 1
       /\ new.hiscore = IF old.hiscore = 0 \/ old.hiscore > throws
                        THEN Min(throws, 999) ELSE old.hiscore
       /\ OthersKept(sc, sc2, lvl)

\* hiscores sc2 are sc with one failed attempt at level lvl counted
FailedOnce(sc, sc2, lvl) ==
    LET old == level_info(sc, lvl)
        new == level_info(sc2, lvl)
    IN /\ ~sc2.panicked
       /\ new.attempts = old.attempts + 1
       /\ new.wins = old.wins
       /\ new.hiscore = old.hiscore
       /\ OthersKept(sc, sc2, lvl)

\* no attempt, win or hiscore is counted between two hiscores
Uncounted(sc, sc2) ==
    \A n \in DOMAIN Levels :
        /\ level_info(sc2, n).attempts = level_info(sc, n).attempts
        /\ level_info(sc2, n).wins = level_info(sc, n).wins
        /\ level_info(sc2, n).hiscore = level_info(sc, n).hiscore

\* what Escape counts for the field as it is
EscapeCounts ==
    CASE field.state \in {"Winner", "Completed"} ->
             WonOnce(scores, scores', field.level, field.score)
      [] field.state = "Looser" -> FailedOnce(scores, scores', field.level)
      [] field.state = "Unfinished" /\ field.score >= MIN_THROWS ->
             FailedOnce(scores, scores', field.level)
      [] OTHER -> Uncounted(scores, scores')

\* C39: in the play scene each outcome is counted once.  A step that leaves
\* the scene counts what Escape counts for the state of the field: one win
\* with the throws of the attempt for Winner and Completed, one failed attempt
\* for Looser and for Unfinished after MIN_THROWS throws or more, nothing for
\* Unfinished after fewer; or it is the update that ends a completed game on
\* Space or Return and counts one win.  A step that goes on to the next level
\* counts one win of the level with the throws of the attempt; a step that
\* restarts a lost level counts one failed attempt; no other step of the
\* scene counts anything.
C39_CountedOnce ==
    [][(InPlay /\ ~scores.panicked) =>
         LET g == update_field(field) IN
         IF scene'.kind = "menu"
         THEN \/ EscapeCounts
              \/ /\ g.state = "Completed"
                 /\ ~g.going_back
                 /\ WonOnce(scores, scores', field.level, g.score)
         ELSE IF scene'.kind = "play" /\ field'.level = field.level + 1
         THEN /\ g.state = "Winner"
              /\ WonOnce(scores, scores', field.level, g.score)
              /\ field'.score = 0
         ELSE IF /\ scene'.kind = "play"
                 /\ g.state = "Looser"
                 /\ ~g.going_back
                 /\ field'.state = "Unfinished"
         THEN /\ FailedOnce(scores, scores', field.level)
              /\ field'.score = 0
         ELSE Uncounted(scores, scores')]_vars

\* level 1 has been won once and level 2, gone on to, has been lost once and
\* restarted
C39_Witness ==
    /\ InPlay
    /\ field.level = 2
    /\ field.state = "Unfinished"
    /\ field.score = 0
    /\ level_info(scores, 1).wins = 1
    /\ level_info(scores, 1).attempts = 1
    /\ level_info(scores, 2).attempts = 1
    /\ level_info(scores, 2).wins = 0


(***************************************************************************)
(* Properties of a session of the play scene                               *)
(***************************************************************************)
\* the ticks of a log go up from move to move
Increasing(ms) == \A i \in 1..(Len(ms) - 1) : ms[i].tick < ms[i + 1].tick

RECURSIVE SaveUnderflows(_, _, _, _)
\* replay.rs:127-138: one of the u64 subtractions of the loop of save goes
\* below zero, over moves i..Len with the running shift and last_delay
SaveUnderflows(ms, i, shift, last_delay) ==
    IF i > Len(ms) THEN FALSE
    ELSE LET delay == ms[i].tick - shift - last_delay
             nshift == IF delay > MAX_DELAY THEN shift + (delay - MAX_DELAY) ELSE shift
             ntick == IF nshift # 0 THEN ms[i].tick - nshift ELSE ms[i].tick
         IN \/ ms[i].tick < shift
            \/ ms[i].tick - shift < last_delay
            \/ ntick < 0
            \/ SaveUnderflows(ms, i + 1, nshift, ntick)

\* replay.rs:183: "moves[idx].tick - shift" goes below zero for a move of the
\* log with the shift of load
PlaybackUnderflows(ms, shift) == \E i \in DOMAIN ms : ms[i].tick < shift

\* C31: in every frame of the play scene the ticks of the recorder's log are
\* strictly increasing, the first is at least 1 and the last is not after
\* the scene's tick counter; none of the subtractions of save underflows on
\* the log, none of next_replay_action on the log save stores, loaded again;
\* and none underflows on the log a demo pushed by the scene plays.
C31_TicksIncrease ==
    /\ InPlay =>
         LET ms == eng.replay.moves
             stored == Normalize(ms, 1, 0, 0)
         IN /\ Increasing(ms)
            /\ ms # <<>> => (ms[1].tick >= 1 /\ ms[Len(ms)].tick <= clock)
            /\ ~SaveUnderflows(ms, 1, 0, 0)
            /\ Increasing(stored)
            /\ stored # <<>> => ~PlaybackUnderflows(stored, LoadShift(stored))
    /\ scene.kind = "demo" => ~PlaybackUnderflows(eng.replay.moves, eng.shift)

\* on level 2, after the win of level 1: a save has moved the ticks of the
\* log down, for a wait longer than MAX_DELAY, and an action has been added
\* after it at the tick of the scene
C31_Witness ==
    /\ InPlay
    /\ field.level = 2
    /\ Len(eng.replay.moves) = MaxLog
    /\ recorded[1].lvl = 1
    /\ recorded[MaxLog].lvl = 2
    /\ eng.replay.moves[MaxLog - 1].tick < recorded[MaxLog - 1].tick
    /\ eng.replay.moves[MaxLog].tick = recorded[MaxLog].tick

\* a lost level has been restarted and an action recorded after it
C31_AfterRestart ==
    /\ InPlay
    /\ field.level = 2
    /\ level_info(scores, 2).attempts = 1
    /\ level_info(scores, 2).wins = 0
    /\ eng.replay.moves # <<>>
    /\ field.state = "Unfinished"


\* the level whose replay the demo pushed by the play scene shows (demo.rs:29)
HelpLevel == IF field.level = 0 THEN DEMO_LEVEL ELSE field.level

\* C32: the assertions of the replay engine hold in the scenes.  In every
\* frame of the play scene that adds an action to the log, the scene's engine
\* is in Recording when add_action is called; and when the play scene pushes
\* a demo, the engine DemoScene::new has made and loaded is Idle when
\* replay_start is called on it, and is the demo's engine afterwards.  The
\* engine of the play scene is in Recording in all its frames, under a demo
\* too.
C32_AssertionsHold ==
    [][/\ (InPlay /\ scene'.kind = "play"
                  /\ Len(eng'.replay.moves) > Len(eng.replay.moves)) =>
              add_action_asserts(eng)
       /\ (InPlay /\ scene'.kind = "demo") =>
              /\ replay_start_asserts(load(ReplayEngineNew, files, HelpLevel))
              /\ eng' = replay_start(load(ReplayEngineNew, files, HelpLevel))
              /\ under'[1].replay = eng
       /\ InPlay' => add_action_asserts(eng')
       /\ scene'.kind = "demo" => (under' # <<>> /\ add_action_asserts(under'[1].replay))]_vars

\* the play scene has saved a log, shown it in a demo, come back on top and
\* added an action to the log
C32_Witness ==
    /\ InPlay
    /\ level_info(scores, field.level).help_used
    /\ files[field.level] # NoFile
    /\ Len(eng.replay.moves) > Len(Deserialize(files[field.level]).moves)
    /\ eng.state = "Recording"


\* C33: a saved replay belongs to its level: every action of the log stored
\* for a level by F5 in the play scene was performed on that level, in the
\* attempt the save was made in.
C33_SavedForItsLevel ==
    \A l \in ReplayLevels :
        files[l] # NoFile => \A i \in DOMAIN fileOrig[l] : fileOrig[l][i].lvl = l


\* the demo on top plays the log the play scene under it has recorded and
\* saved for its level, all of it made on that level with no gap above
\* MAX_DELAY, so that save has stored it as recorded
PlaysOwnRecording ==
    /\ scene.kind = "demo"
    /\ under # <<>>
    /\ eng.replay.moves = under[1].replay.replay.moves
    /\ Len(recorded) = Len(eng.replay.moves)
    /\ Len(under[1].scene.gaps) = Len(recorded)
    /\ \A i \in DOMAIN recorded :
         /\ recorded[i].lvl = field.level
         /\ recorded[i].tick = eng.replay.moves[i].tick
         /\ recorded[i].tick - (IF i = 1 THEN 0 ELSE recorded[i - 1].tick) <= MAX_DELAY

\* C34: recording and playback advance the field in lock-step: while a demo
\* plays a recording of the play scene with no gap above MAX_DELAY, the calls
\* of field.update between two actions the demo has applied one after the
\* other are as many as the play scene made between the same two actions.
C34_LockStep ==
    PlaysOwnRecording =>
        \A i \in 2..Len(scene.gaps) : scene.gaps[i] = under[1].scene.gaps[i]

=============================================================================
